---- MODULE Spec2Model ----
(***************************************************************************)
(* A model of candyKV, a Redis-protocol in-memory key-value server:        *)
(*   - the typed store (MemoryStore) with lazy expiration,                 *)
(*   - the sorted set (SortedSet) and its skip list,                       *)
(*   - the commands that sit on top of the store (DelCommand),             *)
(*   - the store's reader/writer lock under concurrent commands,           *)
(*   - the per-connection handler loop, and                                *)
(*   - the listener / supervisor (Server.Start, Server.Stop).              *)
(*                                                                         *)
(* Time is counted in ticks; TicksPerSecond ticks make one second, so the  *)
(* truncation of TTL to whole seconds is visible.  Scores are small        *)
(* integers (exactly representable float64 values).                        *)
(***************************************************************************)
EXTENDS Integers, Sequences, FiniteSets, TLC

VARIABLES
    data,       \* MemoryStore.data    : map key -> value
    expires,    \* MemoryStore.expires : map key -> deadline
    now,        \* the wall clock read by time.Now()
    last,       \* the last store operation and what it returned
    mu,         \* MemoryStore.mu : the writer and the readers holding it
    conn,       \* per connection: the command in progress and its position
    fatal,      \* the Go runtime has aborted on a concurrent map access
    stored,     \* per key: how often a SET created the key
    credited,   \* per key: how often a DEL reply counted the key
    inq,        \* one connection: the requests sent and not yet read
    out,        \* one connection: the responses written so far
    received,   \* one connection: every request the client has sent
    hnd,        \* Handler.Handle: its position, command and result
    srv,        \* the Server value: listener, stopped, quit, wg
    sockets,    \* every listener socket opened so far: open or closed
    loops,      \* the acceptConnections goroutines and their positions
    peers,      \* the clients: idle, dialing, connected or gone
    callers,    \* the goroutines calling Start and Stop
    hist        \* the calls of Start and Stop that have returned

storeVars == <<data, expires, now, last>>
lockVars == <<mu, conn, fatal, stored, credited>>
handlerVars == <<inq, out, received, hnd>>
serverVars == <<srv, sockets, loops, peers, callers, hist>>
vars == <<data, expires, now, last, mu, conn, fatal, stored, credited,
          inq, out, received, hnd, srv, sockets, loops, peers, callers, hist>>

(***************************************************************************)
(* Bounds of the model.                                                    *)
(***************************************************************************)
MaxTime == 3            \* the clock stops advancing at this tick
MaxAdds == 2            \* SortedSet.Add calls per sorted set (len(members))

MaxRequests == 3        \* requests a client sends on its connection
MaxCalls == 4           \* calls of Start and Stop on the Server

TicksPerSecond == 2


(***************************************************************************)
(* Go values.                                                              *)
(***************************************************************************)
NIL == [kind |-> "nil"]
NoErr == ""
StringVal(s) == [kind |-> "string", str |-> s]
IntVal(n) == [kind |-> "int", int |-> n]
FloatVal(f) == [kind |-> "float", val |-> f]
ArrayVal(a) == [kind |-> "array", arr |-> a]
KeyList(s) == [kind |-> "keys", set |-> s]

\* delete(m, k) and m[k] = v on a Go map
MapDelete(m, k) == [x \in (DOMAIN m) \ {k} |-> m[x]]
MapPut(m, k, v) == [x \in (DOMAIN m) \cup {k} |-> IF x = k THEN v ELSE m[x]]
EmptyMap == [x \in {} |-> NIL]

(***************************************************************************)
(* internal/commands/options: the option registry.                         *)
(***************************************************************************)
\* byte-wise strings.ToUpper on the tokens the model uses
ToUpper(s) ==
    CASE s = "nx" -> "NX" [] s = "xx" -> "XX" [] s = "gt" -> "GT"
      [] s = "lt" -> "LT" [] s = "ch" -> "CH" [] s = "incr" -> "INCR"
      [] s = "get" -> "GET" [] s = "ping" -> "PING" [] s = "set" -> "SET"
      [] s = "del" -> "DEL" [] s = "zadd" -> "ZADD"
      [] OTHER -> s

\* NewOptions: nothing registered, nothing active
NewOptions == [nil |-> FALSE, options |-> EmptyMap, active |-> {},
               ExpiryType |-> "", ExpiryTime |-> 0]

\* a nil *SetOptions / *ExpireOptions / *ZAddOptions
NilOptions == [nil |-> TRUE, options |-> EmptyMap, active |-> {},
               ExpiryType |-> "", ExpiryTime |-> 0]

RegisterOption(o, name, incompatible) ==
    [o EXCEPT !.options = MapPut(o.options, name, incompatible)]

\* Options.Set: unknown names and names incompatible with an active option
\* are refused
Options_Set(o, name0) ==
    LET name == ToUpper(name0) IN
    IF name \notin DOMAIN o.options
    THEN [o |-> o, err |-> "unknown option"]
    ELSE IF \E activeOpt \in o.active :
                \E incompatible \in o.options[name] :
                    ToUpper(incompatible) = activeOpt
         THEN [o |-> o, err |-> "incompatible option"]
         ELSE [o |-> [o EXCEPT !.active = o.active \cup {name}], err |-> NoErr]

IsSet(o, name) == ToUpper(name) \in o.active

NewSetOptions ==
    RegisterOption(RegisterOption(RegisterOption(NewOptions,
        "NX", {"XX"}), "XX", {"NX"}), "GET", {})

NewExpireOptions ==
    RegisterOption(RegisterOption(RegisterOption(RegisterOption(NewOptions,
        "NX", {"XX", "GT", "LT"}), "XX", {"NX", "GT", "LT"}),
        "GT", {"NX", "XX", "LT"}), "LT", {"NX", "XX", "GT"})

NewZAddOptions ==
    RegisterOption(RegisterOption(RegisterOption(RegisterOption(
    RegisterOption(RegisterOption(NewOptions,
        "NX", {"XX"}), "XX", {"NX"}), "GT", {"LT"}), "LT", {"GT"}),
        "CH", {}), "INCR", {"NX", "XX", "GT", "LT"})

\* SetOptions.SetExpiry; value is in ticks for EX/PX and an absolute tick
\* for EXAT/PXAT
SetExpiry(o, expiryType, value, t) ==
    CASE expiryType \in {"EX", "PX"} ->
            [o EXCEPT !.ExpiryTime = t + value, !.ExpiryType = expiryType]
      [] expiryType \in {"EXAT", "PXAT"} ->
            [o EXCEPT !.ExpiryTime = value, !.ExpiryType = expiryType]
      [] expiryType = "KEEPTTL" ->
            [o EXCEPT !.ExpiryType = "KEEPTTL"]
      [] OTHER -> o

\* an IsKEEPTTL that never recognises the option
IsKEEPTTL_Never(o) == FALSE
IsKEEPTTL(o) == o.ExpiryType = "KEEPTTL"

\* the option records a sequence of Set calls on a fresh registry can build
RECURSIVE ApplyOptions(_, _)
ApplyOptions(o, names) ==
    IF names = <<>> THEN [o |-> o, err |-> NoErr]
    ELSE LET r == Options_Set(o, Head(names)) IN
         IF r.err # NoErr THEN r ELSE ApplyOptions(r.o, Tail(names))

(***************************************************************************)
(* MemoryStore: the string operations.  A store operation takes the maps   *)
(* st = [data, expires] and the clock t and returns the new maps together  *)
(* with the Go return values (res, err).                                   *)
(***************************************************************************)
Ret(d, e, res, err) == [data |-> d, expires |-> e, res |-> res, err |-> err]

isExpired(st, t, key) ==
    IF key \in DOMAIN st.expires THEN t > st.expires[key] ELSE FALSE

\* Get whose lazy expiry reclaims the value and leaves the deadline
Get_LeavesDeadline(st, t, key) ==
    IF isExpired(st, t, key)
    THEN Ret(MapDelete(st.data, key), st.expires, NIL, NoErr)
    ELSE IF key \in DOMAIN st.data
         THEN IF st.data[key].kind = "string"
              THEN Ret(st.data, st.expires, st.data[key], NoErr)
              ELSE Ret(st.data, st.expires, NIL, "WRONGTYPE")
         ELSE Ret(st.data, st.expires, NIL, NoErr)

\* Get without the check of the value's type
Get_NoTypeCheck(st, t, key) ==
    IF isExpired(st, t, key)
    THEN Ret(MapDelete(st.data, key), MapDelete(st.expires, key), NIL, NoErr)
    ELSE IF key \in DOMAIN st.data
         THEN Ret(st.data, st.expires, st.data[key], NoErr)
         ELSE Ret(st.data, st.expires, NIL, NoErr)

Get(st, t, key) ==
    IF isExpired(st, t, key)
    THEN Ret(MapDelete(st.data, key), MapDelete(st.expires, key), NIL, NoErr)
    ELSE IF key \in DOMAIN st.data
         THEN IF st.data[key].kind = "string"
              THEN Ret(st.data, st.expires, st.data[key], NoErr)
              ELSE Ret(st.data, st.expires, NIL, "WRONGTYPE")
         ELSE Ret(st.data, st.expires, NIL, NoErr)

\* Set without the reset of the deadline that a plain SET performs
Set_KeepsDeadline(st, t, key, value, opts) ==
    LET exists == key \in DOMAIN st.data
        oldValue == IF exists THEN st.data[key] ELSE NIL
    IN
    IF ~opts.nil /\ IsSet(opts, "NX") /\ exists
    THEN Ret(st.data, st.expires, NIL, "key already exists")
    ELSE IF ~opts.nil /\ IsSet(opts, "XX") /\ ~exists
    THEN Ret(st.data, st.expires, NIL, "key does not exist")
    ELSE
      LET d == MapPut(st.data, key, value)
          e == IF ~opts.nil /\ ~IsKEEPTTL(opts) /\ opts.ExpiryType # ""
               THEN MapPut(st.expires, key, opts.ExpiryTime)
               ELSE st.expires
      IN IF ~opts.nil /\ IsSet(opts, "GET")
         THEN Ret(d, e, oldValue, NoErr)
         ELSE Ret(d, e, NIL, NoErr)

Set(st, t, key, value, opts) ==
    LET exists == key \in DOMAIN st.data
        oldValue == IF exists THEN st.data[key] ELSE NIL
    IN
    IF ~opts.nil /\ IsSet(opts, "NX") /\ exists
    THEN Ret(st.data, st.expires, NIL, "key already exists")
    ELSE IF ~opts.nil /\ IsSet(opts, "XX") /\ ~exists
    THEN Ret(st.data, st.expires, NIL, "key does not exist")
    ELSE
      LET d == MapPut(st.data, key, value)
          e == IF ~opts.nil
               THEN IF IsKEEPTTL(opts)
                    THEN st.expires
                    ELSE IF opts.ExpiryType # ""
                         THEN MapPut(st.expires, key, opts.ExpiryTime)
                         ELSE MapDelete(st.expires, key)
               ELSE MapDelete(st.expires, key)
      IN IF ~opts.nil /\ IsSet(opts, "GET")
         THEN Ret(d, e, oldValue, NoErr)
         ELSE Ret(d, e, NIL, NoErr)

Del(st, t, key) ==
    Ret(MapDelete(st.data, key), MapDelete(st.expires, key), NIL, NoErr)

\* Expire whose GT gate lets an equal deadline through
Expire_GTInclusive(st, t, key, ttl, opts) ==
    IF key \notin DOMAIN st.data
    THEN Ret(st.data, st.expires, NIL, "key does not exist")
    ELSE
      LET hasExpiry == IF key \in DOMAIN st.expires
                       THEN ~(t > st.expires[key]) ELSE FALSE
          currentTTL == st.expires[key] - t
          gate ==
            IF opts.nil THEN NoErr
            ELSE IF IsSet(opts, "NX") /\ hasExpiry
                 THEN "key already has an expiry"
            ELSE IF IsSet(opts, "XX") /\ ~hasExpiry
                 THEN "key has no expiry"
            ELSE IF IsSet(opts, "GT") /\ hasExpiry /\ ttl < currentTTL
                 THEN "new expiry is not greater than current one"
            ELSE IF IsSet(opts, "LT") /\ hasExpiry /\ ttl >= currentTTL
                 THEN "new expiry is not less than current one"
            ELSE NoErr
      IN IF gate # NoErr
         THEN Ret(st.data, st.expires, NIL, gate)
         ELSE IF ttl <= 0
              THEN Ret(MapDelete(st.data, key), MapDelete(st.expires, key),
                       NIL, NoErr)
              ELSE Ret(st.data, MapPut(st.expires, key, t + ttl), NIL, NoErr)

\* Expire whose ttl <= 0 branch drops the deadline and keeps the value
Expire_KeepsValue(st, t, key, ttl, opts) ==
    IF key \notin DOMAIN st.data
    THEN Ret(st.data, st.expires, NIL, "key does not exist")
    ELSE
      LET hasExpiry == IF key \in DOMAIN st.expires
                       THEN ~(t > st.expires[key]) ELSE FALSE
          currentTTL == st.expires[key] - t
          gate ==
            IF opts.nil THEN NoErr
            ELSE IF IsSet(opts, "NX") /\ hasExpiry
                 THEN "key already has an expiry"
            ELSE IF IsSet(opts, "XX") /\ ~hasExpiry
                 THEN "key has no expiry"
            ELSE IF IsSet(opts, "GT") /\ hasExpiry /\ ttl <= currentTTL
                 THEN "new expiry is not greater than current one"
            ELSE IF IsSet(opts, "LT") /\ hasExpiry /\ ttl >= currentTTL
                 THEN "new expiry is not less than current one"
            ELSE NoErr
      IN IF gate # NoErr
         THEN Ret(st.data, st.expires, NIL, gate)
         ELSE IF ttl <= 0
              THEN Ret(st.data, MapDelete(st.expires, key), NIL, NoErr)
              ELSE Ret(st.data, MapPut(st.expires, key, t + ttl), NIL, NoErr)

Expire(st, t, key, ttl, opts) ==
    IF key \notin DOMAIN st.data
    THEN Ret(st.data, st.expires, NIL, "key does not exist")
    ELSE
      LET hasExpiry == IF key \in DOMAIN st.expires
                       THEN ~(t > st.expires[key]) ELSE FALSE
          currentTTL == st.expires[key] - t
          gate ==
            IF opts.nil THEN NoErr
            ELSE IF IsSet(opts, "NX") /\ hasExpiry
                 THEN "key already has an expiry"
            ELSE IF IsSet(opts, "XX") /\ ~hasExpiry
                 THEN "key has no expiry"
            ELSE IF IsSet(opts, "GT") /\ hasExpiry /\ ttl <= currentTTL
                 THEN "new expiry is not greater than current one"
            ELSE IF IsSet(opts, "LT") /\ hasExpiry /\ ttl >= currentTTL
                 THEN "new expiry is not less than current one"
            ELSE NoErr
      IN IF gate # NoErr
         THEN Ret(st.data, st.expires, NIL, gate)
         ELSE IF ttl <= 0
              THEN Ret(MapDelete(st.data, key), MapDelete(st.expires, key),
                       NIL, NoErr)
              ELSE Ret(st.data, MapPut(st.expires, key, t + ttl), NIL, NoErr)

\* TTL answering -2 for a reached deadline without reclaiming the entry
TTL_NoReclaim(st, t, key) ==
    IF key \notin DOMAIN st.data
    THEN Ret(st.data, st.expires, IntVal(-2), NoErr)
    ELSE IF key \in DOMAIN st.expires
         THEN LET remaining == st.expires[key] - t IN
              IF remaining <= 0
              THEN Ret(st.data, st.expires, IntVal(-2), NoErr)
              ELSE Ret(st.data, st.expires,
                       IntVal(remaining \div TicksPerSecond), NoErr)
         ELSE Ret(st.data, st.expires, IntVal(-1), NoErr)

\* int(remaining.Seconds()) for a positive remaining time
TTL(st, t, key) ==
    IF key \notin DOMAIN st.data
    THEN Ret(st.data, st.expires, IntVal(-2), NoErr)
    ELSE IF key \in DOMAIN st.expires
         THEN LET remaining == st.expires[key] - t IN
              IF remaining <= 0
              THEN Ret(MapDelete(st.data, key), MapDelete(st.expires, key),
                       IntVal(-2), NoErr)
              ELSE Ret(st.data, st.expires,
                       IntVal(remaining \div TicksPerSecond), NoErr)
         ELSE Ret(st.data, st.expires, IntVal(-1), NoErr)

\* matchPattern on the patterns the model uses: "*" and patterns without
\* metacharacters, whose anchored regular expression matches only itself
matchPattern(str, pattern) ==
    IF pattern = "*" THEN TRUE ELSE str = pattern

\* the slice Keys returns is in map-iteration order; it is kept as a set
Keys(st, t, pattern) ==
    Ret(st.data, st.expires,
        KeyList({k \in DOMAIN st.data :
                    ~isExpired(st, t, k) /\ matchPattern(k, pattern)}),
        NoErr)

(***************************************************************************)
(* internal/store/skiplist.go: the ordered index.  Nodes live in a heap    *)
(* (a map from node id to node); id 0 is the header node and NilNode is    *)
(* the nil pointer.  A node that delete unlinks is dropped from the heap.  *)
(***************************************************************************)
maxLevel == 32
NilNode == -1
HeadId == 0

\* byte-wise order of the member strings the model uses
MemberOrder == <<"a", "b", "c">>
MemberRank(m) == CHOOSE i \in 1..Len(MemberOrder) : MemberOrder[i] = m
StrLess(x, y) == MemberRank(x) < MemberRank(y)
StrLeq(x, y) == MemberRank(x) <= MemberRank(y)

newSkiplist ==
    [nodes |-> [n \in {HeadId} |->
                   [member |-> "", score |-> 0,
                    forward |-> [i \in 0..(maxLevel - 1) |-> NilNode],
                    backward |-> NilNode, level |-> maxLevel]],
     head |-> HeadId, tail |-> NilNode, length |-> 0, level |-> 1]

\* the address of a freshly allocated node
NewNodeId(sl) == CHOOSE n \in 1..(Cardinality(DOMAIN sl.nodes) + 1) :
                    n \notin DOMAIN sl.nodes

\* the loop condition without the comparison of members on equal scores
KeyBefore_ScoreOnly(node, score, member) == node.score < score

\* the loop condition of the search in insert and delete
KeyBefore(node, score, member) ==
    \/ node.score < score
    \/ node.score = score /\ StrLess(node.member, member)

RECURSIVE Advance(_, _, _, _, _)
Advance(sl, current, i, score, member) ==
    LET nxt == sl.nodes[current].forward[i] IN
    IF nxt # NilNode /\ KeyBefore(sl.nodes[nxt], score, member)
    THEN Advance(sl, nxt, i, score, member)
    ELSE current

\* the search loop: the update array and the node the search stops at
RECURSIVE Descend(_, _, _, _, _, _)
Descend(sl, current, i, score, member, update) ==
    IF i < 0 THEN [update |-> update, current |-> current]
    ELSE LET c == Advance(sl, current, i, score, member) IN
         Descend(sl, c, i - 1, score, member, [update EXCEPT ![i] = c])

Search(sl, score, member) ==
    Descend(sl, sl.head, sl.level - 1, score, member,
            [i \in 0..(maxLevel - 1) |-> NilNode])

delete(sl, score, member) ==
    LET s == Search(sl, score, member)
        update == s.update
        current == sl.nodes[s.current].forward[0]
    IN
    IF current = NilNode \/ sl.nodes[current].member # member
    THEN [sl |-> sl, ok |-> FALSE]
    ELSE
      LET \* the unlink loop stops at the first level that does not point
          \* at the node
          stopAt == IF \E i \in 0..(sl.level - 1) :
                          sl.nodes[update[i]].forward[i] # current
                    THEN CHOOSE i \in 0..(sl.level - 1) :
                          /\ sl.nodes[update[i]].forward[i] # current
                          /\ \A j \in 0..(i - 1) :
                                sl.nodes[update[j]].forward[j] = current
                    ELSE sl.level
          cur == sl.nodes[current]
          nodes1 == [n \in DOMAIN sl.nodes |->
                       [sl.nodes[n] EXCEPT !.forward =
                          [i \in DOMAIN @ |->
                             IF i < stopAt /\ update[i] = n
                             THEN cur.forward[i] ELSE @[i]]]]
          nodes2 == IF cur.forward[0] # NilNode
                    THEN [nodes1 EXCEPT ![cur.forward[0]].backward =
                                            cur.backward]
                    ELSE nodes1
          tail1 == IF cur.forward[0] # NilNode THEN sl.tail ELSE cur.backward
          emptyFrom == {l \in 1..sl.level :
                          \A j \in l..sl.level :
                             j > 1 /\ nodes2[sl.head].forward[j - 1] = NilNode}
          level1 == IF emptyFrom = {} THEN sl.level
                    ELSE (CHOOSE l \in emptyFrom :
                             \A m \in emptyFrom : l <= m) - 1
      IN [sl |-> [nodes |-> [n \in (DOMAIN nodes2) \ {current} |-> nodes2[n]],
                  head |-> sl.head, tail |-> tail1,
                  length |-> sl.length - 1, level |-> level1],
          ok |-> TRUE]

\* level is the value randomLevel() returns when insert allocates a node
RECURSIVE insert(_, _, _, _)
insert(sl, score, member, level) ==
    LET s == Search(sl, score, member)
        current == sl.nodes[s.current].forward[0]
    IN
    IF current # NilNode /\ sl.nodes[current].member = member
    THEN LET oldScore == sl.nodes[current].score
             sl1 == [sl EXCEPT !.nodes[current].score = score]
         IN IF oldScore = score
            THEN [sl |-> sl1, ok |-> FALSE]
            ELSE insert(delete(sl1, oldScore, member).sl, score, member, level)
    ELSE
      LET update == IF level > sl.level
                    THEN [i \in 0..(maxLevel - 1) |->
                            IF i >= sl.level /\ i < level
                            THEN sl.head ELSE s.update[i]]
                    ELSE s.update
          level1 == IF level > sl.level THEN level ELSE sl.level
          id == NewNodeId(sl)
          newNode == [member |-> member, score |-> score,
                      forward |-> [i \in 0..(level - 1) |->
                                     sl.nodes[update[i]].forward[i]],
                      backward |-> IF update[0] = sl.head
                                   THEN NilNode ELSE update[0],
                      level |-> level]
          nodes1 == [n \in (DOMAIN sl.nodes) \cup {id} |->
                       IF n = id THEN newNode
                       ELSE [sl.nodes[n] EXCEPT !.forward =
                               [i \in DOMAIN @ |->
                                  IF i < level /\ update[i] = n
                                  THEN id ELSE @[i]]]]
          nodes2 == IF newNode.forward[0] # NilNode
                    THEN [nodes1 EXCEPT ![newNode.forward[0]].backward = id]
                    ELSE nodes1
          tail1 == IF newNode.forward[0] # NilNode THEN sl.tail ELSE id
      IN [sl |-> [nodes |-> nodes2, head |-> sl.head, tail |-> tail1,
                  length |-> sl.length + 1, level |-> level1],
          ok |-> TRUE]

\* the nodes met by following forward[0] from a node
RECURSIVE Walk(_, _, _)
Walk(sl, current, n) ==
    IF current = NilNode \/ n <= 0 THEN <<>>
    ELSE <<current>> \o Walk(sl, sl.nodes[current].forward[0], n - 1)

RECURSIVE Skip(_, _, _)
Skip(sl, current, n) ==
    IF current = NilNode \/ n <= 0 THEN current
    ELSE Skip(sl, sl.nodes[current].forward[0], n - 1)

getRange(sl, start0, stop0) ==
    LET start1 == IF start0 < 0 THEN sl.length + start0 ELSE start0
        stop1 == IF stop0 < 0 THEN sl.length + stop0 ELSE stop0
        start == IF start1 < 0 THEN 0 ELSE start1
        stop == IF stop1 >= sl.length THEN sl.length - 1 ELSE stop1
    IN IF start > stop THEN <<>>
       ELSE Walk(sl, Skip(sl, sl.nodes[sl.head].forward[0], start),
                 stop - start + 1)

(***************************************************************************)
(* SortedSet: the member -> score map, the skip list and the two append-   *)
(* only slices scores and members.                                         *)
(***************************************************************************)
NewSortedSet ==
    [kind |-> "zset", dict |-> <<>>, sl |-> newSkiplist,
     scores |-> <<>>, members |-> <<>>]

Add(set, member, score, level) ==
    [set EXCEPT !.dict = MapPut(set.dict, member, score),
                !.sl = insert(set.sl, score, member, level).sl,
                !.scores = Append(set.scores, score),
                !.members = Append(set.members, member)]

\* one output slot of a range: the member, followed by its score
Slot(node, withScores) ==
    IF withScores THEN <<StringVal(node.member), FloatVal(node.score)>>
    ELSE <<StringVal(node.member)>>

RECURSIVE Emit(_, _, _)
Emit(sl, ids, withScores) ==
    IF ids = <<>> THEN <<>>
    ELSE Slot(sl.nodes[Head(ids)], withScores)
            \o Emit(sl, Tail(ids), withScores)

Range(set, start, stop, withScores) ==
    IF Cardinality(DOMAIN set.dict) = 0 THEN <<>>
    ELSE Emit(set.sl, getRange(set.sl, start, stop), withScores)

\* the positioning loops of RangeByScore: forward they pass the nodes with
\* score < min, with rev the nodes with score > max
RECURSIVE AdvanceScore(_, _, _, _, _)
AdvanceScore(sl, current, i, rev, bound) ==
    LET nxt == sl.nodes[current].forward[i] IN
    IF nxt # NilNode /\ (IF rev THEN sl.nodes[nxt].score > bound
                                ELSE sl.nodes[nxt].score < bound)
    THEN AdvanceScore(sl, nxt, i, rev, bound)
    ELSE current

RECURSIVE DescendScore(_, _, _, _, _)
DescendScore(sl, current, i, rev, bound) ==
    IF i < 0 THEN current
    ELSE DescendScore(sl, AdvanceScore(sl, current, i, rev, bound),
                      i - 1, rev, bound)

\* the collecting loop with a forward bound that leaves max out
RECURSIVE CollectScore_Exclusive(_, _, _, _, _)
CollectScore_Exclusive(sl, current, rev, bound, withScores) ==
    IF current # NilNode /\ (IF rev THEN sl.nodes[current].score >= bound
                                    ELSE sl.nodes[current].score < bound)
    THEN Slot(sl.nodes[current], withScores)
            \o CollectScore_Exclusive(sl, sl.nodes[current].forward[0], rev,
                                      bound, withScores)
    ELSE <<>>

\* the collecting loops of RangeByScore: forward they run while
\* score <= max, with rev while score >= min
RECURSIVE CollectScore(_, _, _, _, _)
CollectScore(sl, current, rev, bound, withScores) ==
    IF current # NilNode /\ (IF rev THEN sl.nodes[current].score >= bound
                                    ELSE sl.nodes[current].score <= bound)
    THEN Slot(sl.nodes[current], withScores)
            \o CollectScore(sl, sl.nodes[current].forward[0], rev, bound,
                            withScores)
    ELSE <<>>

RangeByScore(set, min, max, rev, withScores) ==
    IF Cardinality(DOMAIN set.dict) = 0 THEN <<>>
    ELSE LET sl == set.sl
             start == DescendScore(sl, sl.head, sl.level - 1, rev,
                                   IF rev THEN max ELSE min)
         IN CollectScore(sl, sl.nodes[start].forward[0], rev,
                         IF rev THEN min ELSE max, withScores)

RECURSIVE LexFilter(_, _, _)
LexFilter(members, min, max) ==
    IF members = <<>> THEN <<>>
    ELSE (IF StrLeq(min, Head(members)) /\ StrLeq(Head(members), max)
          THEN <<StringVal(Head(members))>> ELSE <<>>)
            \o LexFilter(Tail(members), min, max)

Reverse(q) == [i \in 1..Len(q) |-> q[Len(q) + 1 - i]]

RangeByLex(set, min, max, rev) ==
    IF rev THEN LexFilter(Reverse(set.members), min, max)
    ELSE LexFilter(set.members, min, max)

(***************************************************************************)
(* MemoryStore: the sorted-set operations.                                 *)
(***************************************************************************)
ScoreMember(score, member) == [Score |-> score, Member |-> member]

\* the loop of ZAdd counting every pair it writes as changed
RECURSIVE ZAddLoop_ChangedCountsAll(_, _, _, _, _, _)
ZAddLoop_ChangedCountsAll(set, members, levels, opts, added, changed) ==
    IF members = <<>>
    THEN [set |-> set, added |-> added, changed |-> changed]
    ELSE
      LET member == Head(members)
          exists == member.Member \in DOMAIN set.dict
          oldScore == IF exists THEN set.dict[member.Member] ELSE 0
          skip ==
            \/ ~opts.nil /\ IsSet(opts, "NX") /\ exists
            \/ ~opts.nil /\ IsSet(opts, "XX") /\ ~exists
            \/ ~opts.nil /\ IsSet(opts, "GT") /\ exists
                    /\ member.Score <= oldScore
            \/ ~opts.nil /\ IsSet(opts, "LT") /\ exists
                    /\ member.Score >= oldScore
      IN IF skip
         THEN ZAddLoop_ChangedCountsAll(set, Tail(members), Tail(levels), opts, added, changed)
         ELSE ZAddLoop_ChangedCountsAll(Add(set, member.Member, member.Score, Head(levels)),
                       Tail(members), Tail(levels), opts,
                       IF ~exists THEN added + 1 ELSE added,
                       changed + 1)

\* the loop of ZAdd over the pairs; levels[i] is what randomLevel() returns
\* for pair i
RECURSIVE ZAddLoop(_, _, _, _, _, _)
ZAddLoop(set, members, levels, opts, added, changed) ==
    IF members = <<>>
    THEN [set |-> set, added |-> added, changed |-> changed]
    ELSE
      LET member == Head(members)
          exists == member.Member \in DOMAIN set.dict
          oldScore == IF exists THEN set.dict[member.Member] ELSE 0
          skip ==
            \/ ~opts.nil /\ IsSet(opts, "NX") /\ exists
            \/ ~opts.nil /\ IsSet(opts, "XX") /\ ~exists
            \/ ~opts.nil /\ IsSet(opts, "GT") /\ exists
                    /\ member.Score <= oldScore
            \/ ~opts.nil /\ IsSet(opts, "LT") /\ exists
                    /\ member.Score >= oldScore
      IN IF skip
         THEN ZAddLoop(set, Tail(members), Tail(levels), opts, added, changed)
         ELSE ZAddLoop(Add(set, member.Member, member.Score, Head(levels)),
                       Tail(members), Tail(levels), opts,
                       IF ~exists THEN added + 1 ELSE added,
                       IF ~exists \/ oldScore # member.Score
                       THEN changed + 1 ELSE changed)

ZAdd(st, t, key, members, opts, levels) ==
    IF key \in DOMAIN st.data /\ st.data[key].kind # "zset"
    THEN Ret(st.data, st.expires, NIL, "WRONGTYPE")
    ELSE
      LET set == IF key \in DOMAIN st.data THEN st.data[key] ELSE NewSortedSet
          \* a missing key holds the new, empty set from here on
          d0 == MapPut(st.data, key, set)
      IN
      IF ~opts.nil /\ IsSet(opts, "INCR")
      THEN IF Len(members) # 1
           THEN Ret(d0, st.expires, NIL,
                    "INCR option requires exactly one score-member pair")
           ELSE LET member == members[1]
                    exists == member.Member \in DOMAIN set.dict
                    oldScore == IF exists THEN set.dict[member.Member] ELSE 0
                    newScore == oldScore + member.Score
                IN IF IsSet(opts, "NX") /\ exists
                   THEN Ret(d0, st.expires, NIL, NoErr)
                   ELSE IF IsSet(opts, "XX") /\ ~exists
                   THEN Ret(d0, st.expires, NIL, NoErr)
                   ELSE Ret(MapPut(st.data, key,
                                   Add(set, member.Member, newScore,
                                       levels[1])),
                            st.expires, FloatVal(newScore), NoErr)
      ELSE LET r == ZAddLoop(set, members, levels, opts, 0, 0) IN
           Ret(MapPut(st.data, key, r.set), st.expires,
               IF ~opts.nil /\ IsSet(opts, "CH")
               THEN IntVal(r.changed) ELSE IntVal(r.added),
               NoErr)

NewZRangeOptions ==
    [nil |-> FALSE, RangeType |-> "", Rev |-> FALSE,
     Limit |-> [Offset |-> 0, Count |-> 0], WithScores |-> FALSE]

ZRange(st, t, key, start, stop, opts) ==
    IF key \notin DOMAIN st.data
    THEN Ret(st.data, st.expires, ArrayVal(<<>>), NoErr)
    ELSE IF st.data[key].kind # "zset"
    THEN Ret(st.data, st.expires, NIL, "WRONGTYPE")
    ELSE
      LET zset == st.data[key]
          withScores == IF ~opts.nil THEN opts.WithScores ELSE FALSE
          byScore == ~opts.nil /\ opts.RangeType = "BYSCORE"
          byLex == ~opts.nil /\ opts.RangeType = "BYLEX"
          typeErr ==
            IF byScore
            THEN IF start.kind # "float" THEN "invalid score range start"
                 ELSE IF stop.kind # "float" THEN "invalid score range stop"
                 ELSE NoErr
            ELSE IF byLex
            THEN IF start.kind # "string" THEN "invalid lex range start"
                 ELSE IF stop.kind # "string" THEN "invalid lex range stop"
                 ELSE NoErr
            ELSE IF start.kind # "int" THEN "invalid index range start"
                 ELSE IF stop.kind # "int" THEN "invalid index range stop"
                 ELSE NoErr
          setLen == Cardinality(DOMAIN zset.dict)
          startIdx1 == IF start.int < 0 THEN setLen + start.int ELSE start.int
          stopIdx1 == IF stop.int < 0 THEN setLen + stop.int ELSE stop.int
          startIdx == IF startIdx1 < 0 THEN 0 ELSE startIdx1
          stopIdx == IF stopIdx1 >= setLen THEN setLen - 1 ELSE stopIdx1
          byRankEmpty == startIdx > stopIdx \/ startIdx >= setLen
          result ==
            IF byScore
            THEN RangeByScore(zset, start.val, stop.val, opts.Rev, withScores)
            ELSE IF byLex
            THEN RangeByLex(zset, start.str, stop.str, opts.Rev)
            ELSE Range(zset, startIdx, stopIdx, withScores)
          multiplier == IF withScores THEN 2 ELSE 1
          adjustedOffset == opts.Limit.Offset * multiplier
          adjustedCount == opts.Limit.Count * multiplier
          end == IF adjustedOffset + adjustedCount > Len(result)
                 THEN Len(result) ELSE adjustedOffset + adjustedCount
      IN
      IF typeErr # NoErr THEN Ret(st.data, st.expires, NIL, typeErr)
      ELSE IF ~byScore /\ ~byLex /\ byRankEmpty
      THEN Ret(st.data, st.expires, ArrayVal(<<>>), NoErr)
      ELSE IF ~opts.nil /\ opts.Limit.Count > 0
      THEN IF adjustedOffset >= Len(result)
           THEN Ret(st.data, st.expires, ArrayVal(<<>>), NoErr)
           ELSE Ret(st.data, st.expires,
                    ArrayVal(SubSeq(result, adjustedOffset + 1, end)), NoErr)
      ELSE Ret(st.data, st.expires, ArrayVal(result), NoErr)

(***************************************************************************)
(* internal/commands: DelCommand.Execute calls Get and then Del for each   *)
(* key.                                                                    *)
(***************************************************************************)
RECURSIVE DelLoop(_, _, _, _)
DelLoop(st, t, keys, deleted) ==
    IF keys = <<>> THEN Ret(st.data, st.expires, IntVal(deleted), NoErr)
    ELSE LET g == Get(st, t, Head(keys))
             afterGet == [data |-> g.data, expires |-> g.expires]
         IN IF g.res # NIL
            THEN LET d == Del(afterGet, t, Head(keys)) IN
                 DelLoop([data |-> d.data, expires |-> d.expires], t,
                         Tail(keys),
                         IF d.err = NoErr THEN deleted + 1 ELSE deleted)
            ELSE DelLoop(afterGet, t, Tail(keys), deleted)

DelCommand_Execute(st, t, keys) == DelLoop(st, t, keys, 0)

(***************************************************************************)
(* The store driven one command at a time: every action is one call of a   *)
(* store operation (or of DelCommand.Execute) at the current clock, and    *)
(* Tick lets the clock advance between two commands.  last records the     *)
(* call, what the key held when the call began, and what the call          *)
(* returned.                                                               *)
(***************************************************************************)
Store == [data |-> data, expires |-> expires]

\* what a key holds, and where its deadline lies relative to the clock
Entry(st, t, key) ==
    [kind |-> IF key \in DOMAIN st.data THEN st.data[key].kind ELSE "none",
     deadline |-> IF key \notin DOMAIN st.expires THEN "none"
                  ELSE IF st.expires[key] > t THEN "future"
                  ELSE IF st.expires[key] = t THEN "now"
                  ELSE "past"]

Called(op, key, args, r) ==
    /\ data' = r.data
    /\ expires' = r.expires
    /\ last' = [op |-> op, key |-> key, args |-> args,
                before |-> Entry(Store, now, key),
                res |-> r.res, err |-> r.err]
    /\ UNCHANGED <<now, lockVars,
                 handlerVars, serverVars>>

NoCall(op) == [op |-> op, key |-> "", args |-> NIL,
               before |-> [kind |-> "none", deadline |-> "none"],
               res |-> NIL, err |-> NoErr]

\* how many Add calls the sorted set at a key has seen
AddsAt(key) ==
    IF key \in DOMAIN data /\ data[key].kind = "zset"
    THEN Len(data[key].members) ELSE 0

GetOp(key) == Called("GET", key, NIL, Get(Store, now, key))

SetOp(key, value, opts) ==
    Called("SET", key, [value |-> value, opts |-> opts],
           Set(Store, now, key, StringVal(value), opts))

DelOp(keys) ==
    Called("DEL", "", [keys |-> keys], DelCommand_Execute(Store, now, keys))

ExpireOp(key, ttl, opts) ==
    Called("EXPIRE", key, [ttl |-> ttl, opts |-> opts],
           Expire(Store, now, key, ttl, opts))

TTLOp(key) == Called("TTL", key, NIL, TTL(Store, now, key))

KeysOp(pattern) == Called("KEYS", pattern, NIL, Keys(Store, now, pattern))

ZAddOp(key, members, opts, levels) ==
    /\ AddsAt(key) + Len(members) <= MaxAdds
    /\ Called("ZADD", key, [members |-> members, opts |-> opts],
              ZAdd(Store, now, key, members, opts, levels))

ZRangeOp(key, in) ==
    Called("ZRANGE", key, in,
           ZRange(Store, now, key, in.start, in.stop, in.opts))

Tick ==
    /\ now < MaxTime
    /\ now' = now + 1
    /\ last' = NoCall("TICK")
    /\ UNCHANGED <<data, expires, lockVars,
                 handlerVars, serverVars>>

\* the connections of the lock-level model, all idle
Conns == {"c1", "c2"}
NoConn == "none"
IdleConn == [pc |-> "idle", cmd |-> NIL, call |-> "", i |-> 0, val |-> NIL,
             deleted |-> 0, ret |-> NIL, err |-> NoErr, done |-> 0]

LockIdle ==
    /\ mu = [writer |-> NoConn, readers |-> {}]
    /\ conn = [c \in Conns |-> IdleConn]
    /\ fatal = FALSE
    /\ stored = [k \in {"k1"} |-> 0]
    /\ credited = [k \in {"k1"} |-> 0]

\* a connection on which nothing has been sent yet
HandlerIdle ==
    /\ inq = [frames |-> <<>>, closed |-> FALSE]
    /\ out = <<>>
    /\ received = <<>>
    /\ hnd = [pc |-> "parse", cmd |-> NIL, res |-> NIL, err |-> NoErr,
              ret |-> NoErr]

\* the Server as New returns it, before any call of Start
Callers == {"g1", "g2"}
Peers == {"p1"}
NilListener == 0
ServerIdle ==
    /\ srv = [listener |-> NilListener, stopped |-> FALSE, quit |-> "open",
              wg |-> 0, closes |-> 0]
    /\ sockets = <<>>
    /\ loops = <<>>
    /\ peers = [p \in Peers |-> [state |-> "idle", socket |-> NilListener]]
    /\ callers = [g \in Callers |-> [pc |-> "idle", alone |-> TRUE]]
    /\ hist = <<>>

StoreInit ==
    /\ data = <<>>
    /\ expires = <<>>
    /\ now = 0
    /\ last = NoCall("NEW")

(***************************************************************************)
(* Spec: strings, deadlines and sorted sets on two keys.                   *)
(***************************************************************************)
KeyUniverse == {"k1", "k2"}

\* SET without options, with EX 1 and with PX of one tick
SetOptionValues ==
    {NilOptions, NewSetOptions,
     SetExpiry(NewSetOptions, "EX", 1 * TicksPerSecond, now),
     SetExpiry(NewSetOptions, "PX", 1, now)}

\* EXPIRE k -1 and EXPIRE k 1, without options and with GT
ExpireTTLs == {-1 * TicksPerSecond, 1 * TicksPerSecond}
ExpireOptionValues == {NilOptions, ApplyOptions(NewExpireOptions, <<"GT">>).o}

DelKeyLists == {<<"k1">>, <<"k2">>, <<"k1", "k2">>}

\* what randomLevel() returns for the pairs of a ZADD: level 1, its most
\* likely result, for every new node
ConnLevels(members) == [i \in 1..Len(members) |-> 1]

ZAddPairs == {<<ScoreMember(s, "a")>> : s \in {1, 2}}

FullRange ==
    [start |-> IntVal(0), stop |-> IntVal(-1),
     opts |-> [NewZRangeOptions EXCEPT !.WithScores = TRUE]]

Init == StoreInit /\ LockIdle /\ HandlerIdle /\ ServerIdle

Next ==
    \/ \E key \in KeyUniverse : GetOp(key)
    \/ \E key \in KeyUniverse, opts \in SetOptionValues :
          SetOp(key, "v1", opts)
    \/ \E keys \in DelKeyLists : DelOp(keys)
    \/ \E key \in KeyUniverse, ttl \in ExpireTTLs,
          opts \in ExpireOptionValues : ExpireOp(key, ttl, opts)
    \/ \E key \in KeyUniverse : TTLOp(key)
    \/ \E pattern \in {"*", "k1"} : KeysOp(pattern)
    \/ \E key \in KeyUniverse, members \in ZAddPairs :
          ZAddOp(key, members, NilOptions, ConnLevels(members))
    \/ \E key \in KeyUniverse : ZRangeOp(key, FullRange)
    \/ Tick

Spec == Init /\ [][Next]_vars

(***************************************************************************)
(* SpecLock: connections running commands concurrently against the store.  *)
(* Every store call is three steps: take mu (Lock for Get, Set, Del and    *)
(* Expire, RLock for TTL, Keys and ZRange), run the body, release mu.      *)
(* DelCommand.Execute is a Get call followed, when it found a value, by a  *)
(* Del call.  A body that writes a map while another connection is inside  *)
(* a read-locked body is a concurrent map access: the writes may go        *)
(* through, or the Go runtime may abort the process (fatal).               *)
(***************************************************************************)
MaxCmds == 2            \* commands a connection issues

\* every call taking the lock shared
LockMode_AllShared(call) == "R"
LockMode(call) == IF call \in {"TTL", "Keys", "ZRange"} THEN "R" ELSE "W"

FirstCall(op) ==
    CASE op = "SET" -> "Set" [] op = "GET" -> "Get" [] op = "DEL" -> "Get"
      [] op = "TTL" -> "TTL" [] op = "KEYS" -> "Keys"
      [] op = "ZRANGE" -> "ZRange"

\* the commands the connections issue, with the options as the parser
\* builds them at the clock reading t
LockCommands(t) ==
    {[op |-> "SET", keys |-> <<"k1">>,
      opts |-> SetExpiry(NewSetOptions, "PX", 1, t)],
     [op |-> "GET", keys |-> <<"k1">>, opts |-> NilOptions],
     [op |-> "DEL", keys |-> <<"k1">>, opts |-> NilOptions],
     [op |-> "TTL", keys |-> <<"k1">>, opts |-> NilOptions],
     [op |-> "KEYS", keys |-> <<"*">>, opts |-> NilOptions],
     [op |-> "ZRANGE", keys |-> <<"k1">>, opts |-> NilOptions]}

\* the store call a connection is in, applied to the maps as they are
CallResult(cn, st, t) ==
    LET key == cn.cmd.keys[cn.i] IN
    CASE cn.call = "Get" -> Get(st, t, key)
      [] cn.call = "Set" -> Set(st, t, key, StringVal("v1"), cn.cmd.opts)
      [] cn.call = "Del" -> Del(st, t, key)
      [] cn.call = "TTL" -> TTL(st, t, key)
      [] cn.call = "Keys" -> Keys(st, t, key)
      [] cn.call = "ZRange" -> ZRange(st, t, key, FullRange.start,
                                      FullRange.stop, FullRange.opts)

Issue(c, cmd) ==
    /\ ~fatal
    /\ conn[c].pc = "idle"
    /\ conn[c].done < MaxCmds
    /\ conn' = [conn EXCEPT ![c] =
                  [IdleConn EXCEPT !.pc = "acquire", !.cmd = cmd,
                                   !.call = FirstCall(cmd.op), !.i = 1,
                                   !.done = conn[c].done]]
    /\ UNCHANGED <<storeVars, mu, fatal, stored, credited,
                 handlerVars, serverVars>>

Acquire(c) ==
    /\ ~fatal
    /\ conn[c].pc = "acquire"
    /\ IF LockMode(conn[c].call) = "W"
       THEN /\ mu.writer = NoConn
            /\ mu.readers = {}
            /\ mu' = [mu EXCEPT !.writer = c]
       ELSE /\ mu.writer = NoConn
            /\ mu' = [mu EXCEPT !.readers = @ \cup {c}]
    /\ conn' = [conn EXCEPT ![c].pc = "body"]
    /\ UNCHANGED <<storeVars, fatal, stored, credited,
                 handlerVars, serverVars>>

\* a body that writes a map while another reader is inside its body
Races(c) ==
    LET r == CallResult(conn[c], Store, now) IN
    /\ r.data # data \/ r.expires # expires
    /\ \E o \in mu.readers \ {c} : conn[o].pc = "body"

Body(c) ==
    /\ ~fatal
    /\ conn[c].pc = "body"
    /\ LET r == CallResult(conn[c], Store, now)
           key == conn[c].cmd.keys[conn[c].i]
       IN /\ data' = r.data
          /\ expires' = r.expires
          /\ conn' = [conn EXCEPT ![c].pc = "release", ![c].val = r.res,
                                  ![c].err = r.err]
          /\ stored' = IF conn[c].call = "Set" /\ r.err = NoErr
                          /\ key \notin DOMAIN data
                       THEN [stored EXCEPT ![key] = @ + 1] ELSE stored
    /\ UNCHANGED <<now, last, mu, fatal, credited,
                 handlerVars, serverVars>>

BodyAbort(c) ==
    /\ ~fatal
    /\ conn[c].pc = "body"
    /\ Races(c)
    /\ fatal' = TRUE
    /\ UNCHANGED <<storeVars, mu, conn, stored, credited,
                 handlerVars, serverVars>>

Release(c) ==
    /\ ~fatal
    /\ conn[c].pc = "release"
    /\ mu' = IF LockMode(conn[c].call) = "W"
             THEN [mu EXCEPT !.writer = NoConn]
             ELSE [mu EXCEPT !.readers = @ \ {c}]
    /\ LET cn == conn[c]
           key == cn.cmd.keys[cn.i]
           deleted == IF cn.call = "Del" /\ cn.err = NoErr
                      THEN cn.deleted + 1 ELSE cn.deleted
           finished(ret, err) ==
               [cn EXCEPT !.pc = "idle", !.ret = ret, !.err = err,
                          !.deleted = deleted, !.done = cn.done + 1]
       IN /\ conn' = [conn EXCEPT ![c] =
                IF cn.cmd.op = "DEL"
                THEN IF cn.call = "Get" /\ cn.val # NIL
                     THEN [cn EXCEPT !.pc = "acquire", !.call = "Del"]
                     ELSE IF cn.i < Len(cn.cmd.keys)
                     THEN [cn EXCEPT !.pc = "acquire", !.call = "Get",
                                     !.i = cn.i + 1, !.deleted = deleted]
                     ELSE finished(IntVal(deleted), NoErr)
                ELSE finished(cn.val, cn.err)]
          /\ credited' = IF cn.cmd.op = "DEL" /\ cn.call = "Del"
                            /\ cn.err = NoErr
                         THEN [credited EXCEPT ![key] = @ + 1] ELSE credited
    /\ UNCHANGED <<storeVars, fatal, stored,
                 handlerVars, serverVars>>

LockTick ==
    /\ ~fatal
    /\ now < MaxTime
    /\ now' = now + 1
    /\ UNCHANGED <<data, expires, last, lockVars,
                 handlerVars, serverVars>>

LockNext ==
    \/ \E c \in Conns, cmd \in LockCommands(now) : Issue(c, cmd)
    \/ \E c \in Conns : Acquire(c)
    \/ \E c \in Conns : Body(c)
    \/ \E c \in Conns : BodyAbort(c)
    \/ \E c \in Conns : Release(c)
    \/ LockTick

SpecLock == Init /\ [][LockNext]_vars

(***************************************************************************)
(* The RESP parser.  A request on the wire is a frame: its first byte, the *)
(* array length that follows, and the elements, each with its own first    *)
(* byte, its length prefix and its bytes.  Parse reads one frame and       *)
(* returns a command or an error.                                          *)
(***************************************************************************)
Bulk(s) == [mark |-> "$", len |-> 1, data |-> s]
NullBulk == [mark |-> "$", len |-> -1, data |-> ""]
Frame(first, count, elems) ==
    [first |-> first, count |-> count, elems |-> elems]
\* a request as clients send it: an array of bulk strings
Request(args) ==
    Frame("*", Len(args), [i \in 1..Len(args) |-> Bulk(args[i])])

Parsed(cmd, err) == [cmd |-> cmd, err |-> err]
ErrInvalidSyntax == "invalid RESP syntax"

\* strconv.Atoi, strconv.ParseInt and strconv.ParseFloat on the strings
\* clients send
Atoi(s) ==
    CASE s = "0" -> [n |-> 0, ok |-> TRUE]
      [] s = "1" -> [n |-> 1, ok |-> TRUE]
      [] s = "2" -> [n |-> 2, ok |-> TRUE]
      [] s = "3" -> [n |-> 3, ok |-> TRUE]
      [] s = "-1" -> [n |-> -1, ok |-> TRUE]
      [] s = "500" -> [n |-> 500, ok |-> TRUE]
      [] OTHER -> [n |-> 0, ok |-> FALSE]
ParseInt(s) == Atoi(s)
ParseFloat(s) == Atoi(s)

\* args[i] with Go's indices, which start at 0
At(args, i) == args[i + 1]

\* time.Duration(value) * time.Second and * time.Millisecond, in ticks
Seconds(n) == n * TicksPerSecond
Milliseconds(n) == (n * TicksPerSecond) \div 1000

\* readBulkString: the element as a string, or the error of reading it
readBulkString(e) ==
    IF e.mark # "$" THEN [val |-> "", err |-> ErrInvalidSyntax]
    ELSE IF e.len < 0 THEN [val |-> "", err |-> NoErr]
    ELSE [val |-> e.data, err |-> NoErr]

\* the option loop of SET, from args[i] on
RECURSIVE SetOptionLoop(_, _, _, _)
SetOptionLoop(args, i, opts, t) ==
    IF i >= Len(args) THEN [o |-> opts, err |-> NoErr]
    ELSE
      LET opt == ToUpper(At(args, i)) IN
      CASE opt \in {"NX", "XX", "GET"} ->
             LET r == Options_Set(opts, opt) IN
             IF r.err # NoErr THEN [o |-> opts, err |-> "invalid option"]
             ELSE SetOptionLoop(args, i + 1, r.o, t)
        [] opt = "KEEPTTL" ->
             SetOptionLoop(args, i + 1, SetExpiry(opts, opt, 0, t), t)
        [] opt \in {"EX", "PX", "EXAT", "PXAT"} ->
             IF i + 1 >= Len(args)
             THEN [o |-> opts, err |-> "option requires a value"]
             ELSE
               LET val == ParseInt(At(args, i + 1)) IN
               IF ~val.ok
               THEN [o |-> opts, err |-> "invalid value for option"]
               ELSE SetOptionLoop(args, i + 2,
                        SetExpiry(opts, opt,
                                  IF opt \in {"EX", "EXAT"}
                                  THEN Seconds(val.n)
                                  ELSE Milliseconds(val.n), t), t)
        [] OTHER -> [o |-> opts, err |-> "unknown option"]

\* the option loop of ZADD: it starts at args[1], the key, and stops at
\* the first argument that is not an option name
RECURSIVE ZAddOptionLoop(_, _, _)
ZAddOptionLoop(args, i, opts) ==
    IF i >= Len(args) THEN [o |-> opts, i |-> i, err |-> NoErr]
    ELSE
      LET opt == ToUpper(At(args, i)) IN
      IF opt \in {"NX", "XX", "GT", "LT", "CH", "INCR"}
      THEN LET r == Options_Set(opts, opt) IN
           IF r.err # NoErr
           THEN [o |-> opts, i |-> i, err |-> "invalid option"]
           ELSE ZAddOptionLoop(args, i + 1, r.o)
      ELSE [o |-> opts, i |-> i, err |-> NoErr]

\* the pair loop of ZADD, from args[i] on; reading args[i+1] past the end
\* of args is an index-out-of-range panic
RECURSIVE ZAddMemberLoop(_, _, _)
ZAddMemberLoop(args, i, members) ==
    IF i >= Len(args) THEN [members |-> members, err |-> NoErr]
    ELSE
      LET score == ParseFloat(At(args, i)) IN
      IF ~score.ok THEN [members |-> members, err |-> "invalid score value"]
      ELSE IF i + 1 >= Len(args)
      THEN [members |-> members, err |-> "panic: index out of range"]
      ELSE ZAddMemberLoop(args, i + 2,
               Append(members, ScoreMember(score.n, At(args, i + 1))))

\* ZRangeOptions.SetLimit
SetLimit(o, offset, count) ==
    IF offset < 0 THEN [o |-> o, err |-> "offset must be non-negative"]
    ELSE IF count < 0 THEN [o |-> o, err |-> "count must be non-negative"]
    ELSE [o |-> [o EXCEPT !.Limit = [Offset |-> offset, Count |-> count]],
          err |-> NoErr]

\* the option loop of ZRANGE, from args[i] on
RECURSIVE ZRangeOptionLoop(_, _, _)
ZRangeOptionLoop(args, i, opts) ==
    IF i >= Len(args) THEN [o |-> opts, err |-> NoErr]
    ELSE
      LET opt == ToUpper(At(args, i)) IN
      CASE opt \in {"BYSCORE", "BYLEX"} ->
             ZRangeOptionLoop(args, i + 1, [opts EXCEPT !.RangeType = opt])
        [] opt = "REV" ->
             ZRangeOptionLoop(args, i + 1, [opts EXCEPT !.Rev = TRUE])
        [] opt = "WITHSCORES" ->
             ZRangeOptionLoop(args, i + 1, [opts EXCEPT !.WithScores = TRUE])
        [] opt = "LIMIT" ->
             IF i + 2 >= Len(args)
             THEN [o |-> opts, err |-> "LIMIT option requires offset and count"]
             ELSE
               LET offset == Atoi(At(args, i + 1))
                   count == Atoi(At(args, i + 2))
               IN
               IF ~offset.ok THEN [o |-> opts, err |-> "invalid LIMIT offset"]
               ELSE IF ~count.ok
               THEN [o |-> opts, err |-> "invalid LIMIT count"]
               ELSE LET r == SetLimit(opts, offset.n, count.n) IN
                    IF r.err # NoErr
                    THEN [o |-> opts, err |-> "invalid LIMIT parameters"]
                    ELSE ZRangeOptionLoop(args, i + 3, r.o)
        [] OTHER -> [o |-> opts, err |-> "unknown option"]

\* createCommand: the command a sequence of strings stands for, built at
\* clock reading t
createCommand(args, t) ==
    IF Len(args) = 0 THEN Parsed(NIL, "empty command")
    ELSE
    LET cmd == ToUpper(At(args, 0)) IN
    CASE cmd = "PING" -> Parsed([name |-> "PING"], NoErr)
      [] cmd = "ECHO" ->
           IF Len(args) # 2
           THEN Parsed(NIL, "ECHO command requires exactly 1 argument")
           ELSE Parsed([name |-> "ECHO", message |-> At(args, 1)], NoErr)
      [] cmd = "SET" ->
           IF Len(args) < 3
           THEN Parsed(NIL, "SET command requires at least 2 arguments")
           ELSE LET r == SetOptionLoop(args, 3, NewSetOptions, t) IN
                IF r.err # NoErr THEN Parsed(NIL, r.err)
                ELSE Parsed([name |-> "SET", Key |-> At(args, 1),
                             Value |-> At(args, 2), Options |-> r.o], NoErr)
      [] cmd = "GET" ->
           IF Len(args) # 2
           THEN Parsed(NIL, "GET command requires exactly 1 argument")
           ELSE Parsed([name |-> "GET", Key |-> At(args, 1)], NoErr)
      [] cmd = "DEL" ->
           IF Len(args) < 2
           THEN Parsed(NIL, "DEL command requires at least 1 argument")
           ELSE Parsed([name |-> "DEL", Keys |-> Tail(args)], NoErr)
      [] cmd = "EXPIRE" ->
           IF Len(args) < 3
           THEN Parsed(NIL, "EXPIRE command requires at least 2 arguments")
           ELSE
             LET ttl == Atoi(At(args, 2)) IN
             IF ~ttl.ok THEN Parsed(NIL, "invalid TTL value")
             ELSE
               LET r == ApplyOptions(NewExpireOptions,
                                     SubSeq(args, 4, Len(args)))
               IN
               IF r.err # NoErr THEN Parsed(NIL, "invalid option")
               ELSE Parsed([name |-> "EXPIRE", Key |-> At(args, 1),
                            TTL |-> Seconds(ttl.n), Options |-> r.o], NoErr)
      [] cmd = "TTL" ->
           IF Len(args) # 2
           THEN Parsed(NIL, "TTL command requires exactly 1 argument")
           ELSE Parsed([name |-> "TTL", Key |-> At(args, 1)], NoErr)
      [] cmd = "KEYS" ->
           IF Len(args) # 2
           THEN Parsed(NIL, "KEYS command requires exactly 1 argument")
           ELSE Parsed([name |-> "KEYS", Pattern |-> At(args, 1)], NoErr)
      [] cmd = "ZADD" ->
           IF Len(args) < 4 \/ (Len(args) - 2) % 2 # 0
           THEN Parsed(NIL,
                    "ZADD command requires at least one score-member pair")
           ELSE
             LET r == ZAddOptionLoop(args, 1, NewZAddOptions) IN
             IF r.err # NoErr THEN Parsed(NIL, r.err)
             ELSE
               LET m == ZAddMemberLoop(args, r.i + 1, <<>>) IN
               IF m.err # NoErr THEN Parsed(NIL, m.err)
               ELSE Parsed([name |-> "ZADD", Key |-> At(args, 1),
                            Members |-> m.members, Options |-> r.o], NoErr)
      [] cmd = "ZRANGE" ->
           IF Len(args) < 4
           THEN Parsed(NIL, "ZRANGE command requires at least 3 arguments")
           ELSE
             LET r == ZRangeOptionLoop(args, 4, NewZRangeOptions) IN
             IF r.err # NoErr THEN Parsed(NIL, r.err)
             ELSE
               LET start == ParseFloat(At(args, 2))
                   stop == ParseFloat(At(args, 3))
                   made(a, b) ==
                       Parsed([name |-> "ZRANGE", Key |-> At(args, 1),
                               Start |-> a, Stop |-> b, Options |-> r.o],
                              NoErr)
               IN
               IF r.o.RangeType = "BYSCORE"
               THEN IF ~start.ok
                    THEN Parsed(NIL, "invalid score range start")
                    ELSE IF ~stop.ok
                    THEN Parsed(NIL, "invalid score range stop")
                    ELSE made(FloatVal(start.n), FloatVal(stop.n))
               ELSE IF r.o.RangeType = "BYLEX"
               THEN made(StringVal(At(args, 2)), StringVal(At(args, 3)))
               ELSE IF ~start.ok THEN Parsed(NIL, "invalid start index")
               ELSE IF ~stop.ok THEN Parsed(NIL, "invalid stop index")
               ELSE made(IntVal(start.n), IntVal(stop.n))
      [] cmd = "COMMAND" -> Parsed([name |-> "COMMAND"], NoErr)
      [] OTHER -> Parsed(NIL, "unknown command")

\* the elements of an array frame as strings, or the first read error
RECURSIVE readElements(_, _)
readElements(elems, elements) ==
    IF elems = <<>> THEN [val |-> elements, err |-> NoErr]
    ELSE LET element == readBulkString(Head(elems)) IN
         IF element.err # NoErr THEN [val |-> elements, err |-> element.err]
         ELSE readElements(Tail(elems), Append(elements, element.val))

parseArray(f, t) ==
    IF f.count < 1 THEN Parsed(NIL, "array length must be positive")
    ELSE LET elements == readElements(f.elems, <<>>) IN
         IF elements.err # NoErr THEN Parsed(NIL, elements.err)
         ELSE createCommand(elements.val, t)

Parse(f, t) ==
    CASE f.first = "*" -> parseArray(f, t)
      [] f.first = "$" -> Parsed(NIL, "bulk string must be part of an array")
      [] f.first = "+" ->
           Parsed(NIL, "simple string must be part of an array")
      [] f.first = ":" -> Parsed(NIL, "integer must be part of an array")
      [] f.first = "-" -> Parsed(NIL, "error must be part of an array")
      [] OTHER -> Parsed(NIL, ErrInvalidSyntax)

(***************************************************************************)
(* The commands and the connection handler.  Handle is a loop of three     *)
(* steps: Parse reads the next request off the connection, Execute runs    *)
(* the command against the store, and the result is written back as a     *)
(* response or as an error response.                                       *)
(***************************************************************************)
SimpleString(s) == [kind |-> "simple", str |-> s]

\* Command.Execute for the commands of PingCommand, EchoCommand, SetCommand,
\* DelCommand and ZAddCommand
Execute(cmd, st, t) ==
    CASE cmd.name = "PING" ->
           Ret(st.data, st.expires, SimpleString("PONG"), NoErr)
      [] cmd.name = "ECHO" ->
           Ret(st.data, st.expires, StringVal(cmd.message), NoErr)
      [] cmd.name = "SET" ->
           Set(st, t, cmd.Key, StringVal(cmd.Value), cmd.Options)
      [] cmd.name = "DEL" -> DelCommand_Execute(st, t, cmd.Keys)
      [] cmd.name = "ZADD" ->
           ZAdd(st, t, cmd.Key, cmd.Members, cmd.Options,
                ConnLevels(cmd.Members))

\* what goes out on the connection: one response per write
Response(value) == [type |-> "response", value |-> value]
ErrorResponse(err) == [type |-> "error", value |-> err]

writeResponse(o, response) == Append(o, Response(response))
writeError_Dropped(o, err) == o
writeError(o, err) == Append(o, ErrorResponse(err))

\* Handle has returned with ret, and handleConnection closes the connection
Returned(ret) ==
    [pc |-> "returned", cmd |-> NIL, res |-> NIL, err |-> NoErr, ret |-> ret]
ParseFailure(cause) == [wrap |-> "error parsing command", cause |-> cause]
WriteFailure == [wrap |-> "error writing response", cause |-> "closed"]

\* the client sends one more request
ClientSend(f) ==
    /\ ~inq.closed
    /\ hnd.pc # "returned"
    /\ Len(received) < MaxRequests
    /\ inq' = [inq EXCEPT !.frames = Append(@, f)]
    /\ received' = Append(received, f)
    /\ UNCHANGED <<storeVars, lockVars, out, hnd, serverVars>>

\* the client closes its end of the connection
ClientClose ==
    /\ ~inq.closed
    /\ inq' = [inq EXCEPT !.closed = TRUE]
    /\ UNCHANGED <<storeVars, lockVars, out, received, hnd, serverVars>>

\* h.parser.Parse() and the branch on its error
HandlerParse ==
    /\ hnd.pc = "parse"
    /\ inq.frames # <<>> \/ inq.closed
    /\ IF inq.frames = <<>>
       THEN \* err.Error() == "EOF"
            /\ hnd' = Returned(NoErr)
            /\ inq' = inq
       ELSE LET p == Parse(Head(inq.frames), now) IN
            /\ inq' = [inq EXCEPT !.frames = Tail(@)]
            /\ hnd' = IF p.err # NoErr
                      THEN Returned(ParseFailure(p.err))
                      ELSE [hnd EXCEPT !.pc = "execute", !.cmd = p.cmd]
    /\ UNCHANGED <<storeVars, lockVars, out, received, serverVars>>

\* command.Execute(h.store)
HandlerExecute ==
    /\ hnd.pc = "execute"
    /\ LET r == Execute(hnd.cmd, Store, now) IN
       /\ data' = r.data
       /\ expires' = r.expires
       /\ hnd' = [hnd EXCEPT !.pc = "write", !.res = r.res, !.err = r.err]
    /\ UNCHANGED <<now, last, lockVars, inq, out, received, serverVars>>

\* h.writeError(err) or h.writeResponse(response), and back to Parse
HandlerWrite ==
    /\ hnd.pc = "write"
    /\ out' = IF hnd.err # NoErr
              THEN writeError(out, hnd.err)
              ELSE writeResponse(out, hnd.res)
    /\ hnd' = [hnd EXCEPT !.pc = "parse", !.cmd = NIL, !.res = NIL,
                          !.err = NoErr]
    /\ UNCHANGED <<storeVars, lockVars, inq, received, serverVars>>

\* the write fails because the client is gone: Handle returns the error
HandlerWriteFails ==
    /\ hnd.pc = "write"
    /\ inq.closed
    /\ hnd' = Returned(WriteFailure)
    /\ UNCHANGED <<storeVars, lockVars, inq, out, received, serverVars>>

(***************************************************************************)
(* SpecHandler: one connection served by Handle; the client sends up to    *)
(* MaxRequests requests, back to back or one at a time, and may close.     *)
(***************************************************************************)
ClientFrames ==
    {Request(<<"ping">>),
     Request(<<"ECHO", "v1">>),
     Request(<<"SET", "k1", "v1">>),
     Request(<<"SET", "k1", "v1", "NX">>),
     Request(<<"DEL", "k1">>),
     Request(<<"ZADD", "k1", "1", "a">>),
     Request(<<"FOO">>),
     Request(<<"ECHO">>),
     Request(<<"SET", "k1", "v1", "BOGUS">>),
     Request(<<"SET", "k1", "v1", "NX", "XX">>),
     Frame("+", 0, <<>>)}

HandlerNext ==
    \/ \E f \in ClientFrames : ClientSend(f)
    \/ ClientClose
    \/ HandlerParse
    \/ HandlerExecute
    \/ HandlerWrite
    \/ HandlerWriteFails

SpecHandler == Init /\ [][HandlerNext]_vars

(***************************************************************************)
(* The Server: Start, Stop, the accept loop and the connection goroutines. *)
(* Start is one step.  Stop is three: the part under s.mu (the stopped     *)
(* flag and close(s.quit)), the closing of the listener, and s.wg.Wait().  *)
(* An accept loop alternates between its select on s.quit and a call of    *)
(* Accept on the listener it read from s.listener.  A connection goroutine *)
(* runs Handle until its client closes, then closes the connection and     *)
(* calls s.wg.Done().  The port is free when no listener socket on it is   *)
(* open.                                                                   *)
(***************************************************************************)
Returns(call, err, alone) == [call |-> call, err |-> err, alone |-> alone]

InCall(g) == callers[g].pc # "idle"
CallsBegun == Len(hist) + Cardinality({g \in Callers : InCall(g)})
PortInUse == \E l \in 1..Len(sockets) : sockets[l] = "open"

\* g begins a call: it runs alone unless another call is in progress, and
\* the calls in progress no longer run alone
Begin(g, pc) ==
    [h \in Callers |->
        IF h = g
        THEN [pc |-> pc, alone |-> \A o \in Callers \ {g} : ~InCall(o)]
        ELSE IF InCall(h) THEN [callers[h] EXCEPT !.alone = FALSE]
        ELSE callers[h]]
\* g returns from its call
End(cs, g) == [cs EXCEPT ![g] = [pc |-> "idle", alone |-> TRUE]]

Start(g) ==
    /\ ~InCall(g)
    /\ CallsBegun < MaxCalls
    /\ LET alone == Begin(g, "Start")[g].alone
           cs == End(Begin(g, "Start"), g)
       IN
       IF PortInUse
       THEN \* net.Listen fails, and s.listener is assigned its nil result
            /\ srv' = [srv EXCEPT !.listener = NilListener]
            /\ hist' = Append(hist,
                          Returns("Start", "failed to start server", alone))
            /\ callers' = cs
            /\ UNCHANGED <<sockets, loops>>
       ELSE /\ sockets' = Append(sockets, "open")
            /\ srv' = [srv EXCEPT !.listener = Len(sockets) + 1,
                                  !.wg = @ + 1]
            /\ loops' = Append(loops, [pc |-> "select",
                                       listener |-> NilListener])
            /\ hist' = Append(hist, Returns("Start", NoErr, alone))
            /\ callers' = cs
    /\ UNCHANGED <<storeVars, lockVars, handlerVars, peers>>

\* Stop without the test of s.stopped: every call closes quit
StopLocked_Unguarded(g) ==
    /\ ~InCall(g)
    /\ CallsBegun < MaxCalls
    /\ srv' = [srv EXCEPT !.stopped = TRUE, !.quit = "closed",
                          !.closes = @ + 1]
    /\ callers' = Begin(g, "StopClose")
    /\ hist' = hist
    /\ UNCHANGED <<storeVars, lockVars, handlerVars, sockets, loops, peers>>

\* Stop, under s.mu: return at once when stopped, else set it and close quit
StopLocked(g) ==
    /\ ~InCall(g)
    /\ CallsBegun < MaxCalls
    /\ IF srv.stopped
       THEN /\ hist' = Append(hist,
                          Returns("Stop", NoErr, Begin(g, "Stop")[g].alone))
            /\ callers' = End(Begin(g, "Stop"), g)
            /\ srv' = srv
       ELSE /\ srv' = [srv EXCEPT !.stopped = TRUE, !.quit = "closed",
                                  !.closes = @ + 1]
            /\ callers' = Begin(g, "StopClose")
            /\ hist' = hist
    /\ UNCHANGED <<storeVars, lockVars, handlerVars, sockets, loops, peers>>

\* Stop: s.listener.Close() when s.listener is not nil
StopClose(g) ==
    /\ callers[g].pc = "StopClose"
    /\ IF srv.listener = NilListener
       THEN /\ callers' = [callers EXCEPT ![g].pc = "StopWait"]
            /\ UNCHANGED <<sockets, hist>>
       ELSE IF sockets[srv.listener] = "closed"
       THEN /\ hist' = Append(hist, Returns("Stop",
                          "failed to close listener", callers[g].alone))
            /\ callers' = End(callers, g)
            /\ sockets' = sockets
       ELSE /\ sockets' = [sockets EXCEPT ![srv.listener] = "closed"]
            /\ callers' = [callers EXCEPT ![g].pc = "StopWait"]
            /\ hist' = hist
    /\ UNCHANGED <<storeVars, lockVars, handlerVars, srv, loops, peers>>

\* Stop: s.wg.Wait() and return nil
StopWait(g) ==
    /\ callers[g].pc = "StopWait"
    /\ srv.wg = 0
    /\ hist' = Append(hist, Returns("Stop", NoErr, callers[g].alone))
    /\ callers' = End(callers, g)
    /\ UNCHANGED <<storeVars, lockVars, handlerVars, srv, sockets, loops,
                   peers>>

Stop(g) == StopLocked(g) \/ StopClose(g) \/ StopWait(g)

\* acceptConnections, the outer select: return when quit is closed, else
\* go on to call Accept on s.listener
AcceptSelect(i) ==
    /\ loops[i].pc = "select"
    /\ IF srv.quit = "closed"
       THEN /\ loops' = [loops EXCEPT ![i].pc = "done"]
            /\ srv' = [srv EXCEPT !.wg = @ - 1]
       ELSE /\ loops' = [loops EXCEPT ![i].pc = "accept",
                                      ![i].listener = srv.listener]
            /\ srv' = srv
    /\ UNCHANGED <<storeVars, lockVars, handlerVars, sockets, peers,
                   callers, hist>>

\* acceptConnections, s.listener.Accept(): a nil listener panics, a closed
\* one returns an error (return when quit is closed, else log and go on),
\* an open one hands over a client that has dialled, for which a
\* connection goroutine is started
AcceptCall(i) ==
    /\ loops[i].pc = "accept"
    /\ LET l == loops[i].listener IN
       IF l = NilListener
       THEN /\ loops' = [loops EXCEPT ![i].pc = "panicked"]
            /\ UNCHANGED <<srv, peers>>
       ELSE IF sockets[l] = "closed"
       THEN IF srv.quit = "closed"
            THEN /\ loops' = [loops EXCEPT ![i].pc = "done"]
                 /\ srv' = [srv EXCEPT !.wg = @ - 1]
                 /\ peers' = peers
            ELSE /\ loops' = [loops EXCEPT ![i].pc = "select"]
                 /\ UNCHANGED <<srv, peers>>
       ELSE \E p \in Peers :
               /\ peers[p] = [state |-> "dialed", socket |-> l]
               /\ peers' = [peers EXCEPT ![p].state = "connected"]
               /\ srv' = [srv EXCEPT !.wg = @ + 1]
               /\ loops' = [loops EXCEPT ![i].pc = "select"]
    /\ UNCHANGED <<storeVars, lockVars, handlerVars, sockets, callers, hist>>

acceptConnections(i) == AcceptSelect(i) \/ AcceptCall(i)

\* handleConnection once Handle has returned: conn.Close() and s.wg.Done()
handleConnection(p) ==
    /\ peers[p].state = "closing"
    /\ peers' = [peers EXCEPT ![p] = [state |-> "idle",
                                      socket |-> NilListener]]
    /\ srv' = [srv EXCEPT !.wg = @ - 1]
    /\ UNCHANGED <<storeVars, lockVars, handlerVars, sockets, loops,
                   callers, hist>>

\* a client dials the port: refused unless a listener socket is open
PeerDial(p) ==
    /\ peers[p].state = "idle"
    /\ \E l \in 1..Len(sockets) :
          /\ sockets[l] = "open"
          /\ peers' = [peers EXCEPT ![p] = [state |-> "dialed",
                                            socket |-> l]]
    /\ UNCHANGED <<storeVars, lockVars, handlerVars, srv, sockets, loops,
                   callers, hist>>

\* a connected client closes its connection: its Handle reads EOF
PeerClose(p) ==
    /\ peers[p].state = "connected"
    /\ peers' = [peers EXCEPT ![p].state = "closing"]
    /\ UNCHANGED <<storeVars, lockVars, handlerVars, srv, sockets, loops,
                   callers, hist>>

(***************************************************************************)
(* SpecServer: up to MaxCalls calls of Start and Stop from two goroutines, *)
(* and a client that dials, is served and closes, again and again.         *)
(***************************************************************************)
ServerNext ==
    \/ \E g \in Callers : Start(g) \/ Stop(g)
    \/ \E i \in 1..Len(loops) : acceptConnections(i)
    \/ \E p \in Peers : handleConnection(p) \/ PeerDial(p) \/ PeerClose(p)

SpecServer == Init /\ [][ServerNext]_vars

\* SpecServerFair: the goroutines keep running (a call of Stop goes on, an
\* accept loop takes its next step, a connection goroutine finishes once
\* its client is gone), and every connected client closes in the end
LoopStep(i) == i \in 1..Len(loops) /\ acceptConnections(i)
ServerFairness ==
    /\ \A g \in Callers : WF_vars(StopClose(g)) /\ WF_vars(StopWait(g))
    /\ \A i \in 1..MaxCalls : WF_vars(LoopStep(i))
    /\ \A p \in Peers : WF_vars(handleConnection(p)) /\ WF_vars(PeerClose(p))
SpecServerFair == SpecServer /\ ServerFairness

(***************************************************************************)
(* SpecAtomic: the bodies of ZAdd and Set taken one write at a time.  ZAdd *)
(* applies its pairs one after the other, Set stores the value and then    *)
(* updates the deadline; both hold mu from before the first write until    *)
(* after the last.  ZRange, Get and TTL take mu, read, and release it.     *)
(***************************************************************************)
AtomicCommands(t) ==
    {[op |-> "ZADD", call |-> "ZAdd", keys |-> <<"k1">>,
      members |-> <<ScoreMember(1, "a"), ScoreMember(2, "b")>>,
      opts |-> NilOptions],
     [op |-> "SET", call |-> "Set", keys |-> <<"k2">>, members |-> <<>>,
      opts |-> SetExpiry(NewSetOptions, "EX", 1 * TicksPerSecond, t)],
     [op |-> "ZRANGE", call |-> "ZRange", keys |-> <<"k1">>,
      members |-> <<>>, opts |-> NilOptions],
     [op |-> "GET", call |-> "Get", keys |-> <<"k2">>, members |-> <<>>,
      opts |-> NilOptions],
     [op |-> "TTL", call |-> "TTL", keys |-> <<"k2">>, members |-> <<>>,
      opts |-> NilOptions]}

\* the writes a call makes between Lock and Unlock
Writes(cmd) ==
    CASE cmd.call = "ZAdd" -> Len(cmd.members)
      [] cmd.call = "Set" -> 2
      [] OTHER -> 1

\* the whole call, applied to the maps st
WholeCall(cn, st, t) ==
    LET key == cn.cmd.keys[1] IN
    CASE cn.call = "ZAdd" ->
           ZAdd(st, t, key, cn.cmd.members, cn.cmd.opts,
                ConnLevels(cn.cmd.members))
      [] cn.call = "Set" -> Set(st, t, key, StringVal("v1"), cn.cmd.opts)
      [] cn.call = "ZRange" -> ZRange(st, t, key, FullRange.start,
                                      FullRange.stop, FullRange.opts)
      [] cn.call = "Get" -> Get(st, t, key)
      [] cn.call = "TTL" -> TTL(st, t, key)

\* the next write of the call: pair i+1 of ZAdd; for Set the assignment
\* s.data[key] = value first and the deadline after it
NextWrite(cn, st, t) ==
    LET key == cn.cmd.keys[1] IN
    CASE cn.call = "ZAdd" ->
           ZAdd(st, t, key, <<cn.cmd.members[cn.i + 1]>>, cn.cmd.opts, <<1>>)
      [] cn.call = "Set" /\ cn.i = 0 ->
           Ret(MapPut(st.data, key, StringVal("v1")), st.expires, NIL, NoErr)
      [] OTHER -> WholeCall(cn, st, t)

AtomicIssue(c, cmd) ==
    /\ conn[c].pc = "idle"
    /\ conn[c].done < MaxCmds
    /\ conn' = [conn EXCEPT ![c] =
                  [IdleConn EXCEPT !.pc = "acquire", !.cmd = cmd,
                                   !.call = cmd.call, !.done = conn[c].done]]
    /\ UNCHANGED <<storeVars, mu, fatal, stored, credited,
                   handlerVars, serverVars>>

\* one write (or the read) of the call; ret keeps the maps as they were
\* when the call made its first step
AtomicStep(c) ==
    /\ conn[c].pc = "body"
    /\ \E r \in {NextWrite(conn[c], Store, now)} :
       LET cn == conn[c]
       IN /\ data' = r.data
          /\ expires' = r.expires
          /\ conn' = [conn EXCEPT ![c] =
                [cn EXCEPT !.i = cn.i + 1,
                           !.ret = IF cn.i = 0 THEN Store ELSE cn.ret,
                           !.val = r.res, !.err = r.err,
                           !.pc = IF cn.i + 1 >= Writes(cn.cmd)
                                     \/ r.err # NoErr
                                  THEN "release" ELSE "body"]]
    /\ UNCHANGED <<now, last, mu, fatal, stored, credited,
                   handlerVars, serverVars>>

AtomicRelease(c) ==
    /\ conn[c].pc = "release"
    /\ mu' = IF LockMode(conn[c].call) = "W"
             THEN [mu EXCEPT !.writer = NoConn]
             ELSE [mu EXCEPT !.readers = @ \ {c}]
    /\ conn' = [conn EXCEPT ![c] =
                  [IdleConn EXCEPT !.done = conn[c].done + 1]]
    /\ UNCHANGED <<storeVars, fatal, stored, credited,
                   handlerVars, serverVars>>

AtomicNext ==
    \/ \E c \in Conns, cmd \in AtomicCommands(now) : AtomicIssue(c, cmd)
    \/ \E c \in Conns : Acquire(c)
    \/ \E c \in Conns : AtomicStep(c)
    \/ \E c \in Conns : AtomicRelease(c)

SpecAtomic == Init /\ [][AtomicNext]_vars

(***************************************************************************)
(* SpecKey: every form of SET and EXPIRE on one key, which holds one of    *)
(* two strings or a sorted set, with the clock advancing in between.       *)
(***************************************************************************)
\* SET with: no options (nil, and the empty options the parser builds),
\* EX 1, PX 500, EXAT (tick 2), KEEPTTL, NX, XX, GET
SetKeyOptions ==
    {NilOptions, NewSetOptions,
     SetExpiry(NewSetOptions, "EX", Seconds(1), now),
     SetExpiry(NewSetOptions, "PX", Milliseconds(500), now),
     SetExpiry(NewSetOptions, "EXAT", 2, now),
     SetExpiry(NewSetOptions, "KEEPTTL", 0, now),
     ApplyOptions(NewSetOptions, <<"NX">>).o,
     ApplyOptions(NewSetOptions, <<"XX">>).o,
     ApplyOptions(NewSetOptions, <<"GET">>).o}

\* Expire with a ttl of -1 s, 0, 500 ms and 1 s; with nil options, with
\* empty options and with each of NX, XX, GT, LT
ExpireKeyTTLs == {Seconds(-1), 0, Milliseconds(500), Seconds(1)}
ExpireKeyOptions ==
    {NilOptions, NewExpireOptions} \cup
    {ApplyOptions(NewExpireOptions, <<name>>).o :
        name \in {"NX", "XX", "GT", "LT"}}

KeyNext ==
    \/ GetOp("k1")
    \/ \E value \in {"v1", "v2"}, opts \in SetKeyOptions :
          SetOp("k1", value, opts)
    \/ DelOp(<<"k1">>)
    \/ \E ttl \in ExpireKeyTTLs, opts \in ExpireKeyOptions :
          ExpireOp("k1", ttl, opts)
    \/ TTLOp("k1")
    \/ \E members \in ZAddPairs :
          ZAddOp("k1", members, NilOptions, ConnLevels(members))
    \/ ZRangeOp("k1", FullRange)
    \/ Tick

SpecKey == Init /\ [][KeyNext]_vars

(***************************************************************************)
(* The response writer.  resp.Writer.WriteInterface is called by           *)
(* writeResponse; it follows the type mapping for command results: null    *)
(* to the null bulk string, an integer to ":", a byte string to a bulk     *)
(* string, a sequence to an array of its elements, a floating-point number *)
(* to a bulk string of its decimal text, a simple-string result to "+".    *)
(***************************************************************************)
SimpleLine(s) == [mark |-> "+", line |-> s]
IntegerLine(n) == [mark |-> ":", int |-> n]
DecimalBulk(f) == [mark |-> "$", decimal |-> f]
ArrayOf(elems) == [mark |-> "*", count |-> Len(elems), elems |-> elems]
Unwritable == [mark |-> "", err |-> "unsupported type"]

WriteScalar(value) ==
    CASE value.kind = "nil" -> NullBulk
      [] value.kind = "int" -> IntegerLine(value.int)
      [] value.kind = "string" -> Bulk(value.str)
      [] value.kind = "float" -> DecimalBulk(value.val)
      [] value.kind = "simple" -> SimpleLine(value.str)
      [] OTHER -> Unwritable

WriteInterface(value) ==
    IF value.kind = "array"
    THEN ArrayOf([i \in 1..Len(value.arr) |-> WriteScalar(value.arr[i])])
    ELSE WriteScalar(value)

(***************************************************************************)
(* SpecZSet: one sorted set, built by ZADD calls with every option the     *)
(* command knows and read by ZRANGE by rank, by score and by member.       *)
(***************************************************************************)
MaxZAdds == 3

\* one pair (score, member), or two pairs for the same or for two members
ZSetPairs ==
    {<<ScoreMember(s, m)>> : s \in {1, 2}, m \in {"a", "b", "c"}}
    \cup {<<ScoreMember(1, "a"), ScoreMember(2, "a")>>,
          <<ScoreMember(2, "b"), ScoreMember(1, "a")>>}

\* nil options, and the options the parser builds from these option words
ZSetOptionWords ==
    {<<>>, <<"NX">>, <<"XX">>, <<"GT">>, <<"LT">>, <<"CH">>,
     <<"CH", "GT">>, <<"INCR">>, <<"INCR", "NX">>, <<"INCR", "XX">>}
ZSetOptions ==
    {NilOptions} \cup
    {ApplyOptions(NewZAddOptions, w).o : w \in ZSetOptionWords}

ByScore(min, max, rev, withScores) ==
    [start |-> FloatVal(min), stop |-> FloatVal(max),
     opts |-> [NewZRangeOptions EXCEPT !.RangeType = "BYSCORE",
                                       !.Rev = rev,
                                       !.WithScores = withScores]]
ByLex(min, max, rev) ==
    [start |-> StringVal(min), stop |-> StringVal(max),
     opts |-> [NewZRangeOptions EXCEPT !.RangeType = "BYLEX", !.Rev = rev]]
ByRank(start, stop, withScores) ==
    [start |-> IntVal(start), stop |-> IntVal(stop),
     opts |-> [NewZRangeOptions EXCEPT !.WithScores = withScores]]

ZSetRanges ==
    {ByRank(0, -1, TRUE), ByRank(-5, 5, FALSE), ByRank(2, 1, FALSE),
     ByScore(2, 3, FALSE, TRUE), ByScore(1, 2, TRUE, FALSE),
     ByLex("a", "b", FALSE), ByLex("a", "c", TRUE)}

ZSetAdd(members, opts) ==
    /\ AddsAt("k1") + Len(members) <= MaxZAdds
    /\ Called("ZADD", "k1", [members |-> members, opts |-> opts],
              ZAdd(Store, now, "k1", members, opts, ConnLevels(members)))

ZSetNext ==
    \/ \E members \in ZSetPairs, opts \in ZSetOptions : ZSetAdd(members, opts)
    \/ \E in \in ZSetRanges : ZRangeOp("k1", in)

SpecZSet == Init /\ [][ZSetNext]_vars

(***************************************************************************)
(* SpecParse: ZADD requests through Parse, and option words through        *)
(* Options.Set on the registry of NewZAddOptions.                          *)
(***************************************************************************)
MaxWords == 2

ZAddWords == {"NX", "XX", "GT", "LT", "CH", "INCR"}
\* the sequences of at most n words
RECURSIVE WordSeqs(_, _)
WordSeqs(words, n) ==
    IF n = 0 THEN {<<>>}
    ELSE LET shorter == WordSeqs(words, n - 1) IN
         shorter \cup {Append(w, x) : w \in shorter, x \in words}

\* opts := NewZAddOptions(); opts.Set(word) for each word, up to the first
\* error
OptionsOp(words) ==
    /\ \E r \in {ApplyOptions(NewZAddOptions, words)} :
          last' = [op |-> "OPTIONS", key |-> "", args |-> [words |-> words],
                   before |-> [kind |-> "none", deadline |-> "none"],
                   res |-> r.o, err |-> r.err]
    /\ UNCHANGED <<data, expires, now, lockVars, handlerVars, serverVars>>

\* the request ZADD key [word ...] score member [score member ...]
ZAddRequest(key, words, pairs) == Request(<<"ZADD", key>> \o words \o pairs)

ParseOp(key, words, pairs) ==
    /\ \E p \in {Parse(ZAddRequest(key, words, pairs), now)} :
          last' = [op |-> "PARSE", key |-> key,
                   args |-> [words |-> words, pairs |-> pairs],
                   before |-> [kind |-> "none", deadline |-> "none"],
                   res |-> p.cmd, err |-> p.err]
    /\ UNCHANGED <<data, expires, now, lockVars, handlerVars, serverVars>>

\* the frames a client may send: requests of a command name and up to
\* MaxWords + 1 further words, and requests with one element replaced by
\* the null bulk string
RequestNames == {"ZADD", "SET", "ZRANGE", "EXPIRE", "GET"}
RequestWords == {"nx", "1", "k1", "EX", "LIMIT"}
NullAt(f, i) == [f EXCEPT !.elems[i] = NullBulk]
ParseFrames ==
    {Request(<<name>> \o words) :
        name \in RequestNames, words \in WordSeqs(RequestWords, MaxWords + 1)}
    \cup {NullAt(Request(<<"GET", "k1">>), i) : i \in 1..2}
    \cup {NullAt(Request(<<"SET", "k1", "v1">>), i) : i \in 1..3}

\* one frame read off the connection by Parse
FrameOp(f) ==
    /\ \E p \in {Parse(f, now)} :
          last' = [op |-> "FRAME", key |-> "", args |-> [frame |-> f],
                   before |-> [kind |-> "none", deadline |-> "none"],
                   res |-> p.cmd, err |-> p.err]
    /\ UNCHANGED <<data, expires, now, lockVars, handlerVars, serverVars>>

ParseNext ==
    \/ \E words \in WordSeqs(ZAddWords, MaxWords + 1) : OptionsOp(words)
    \/ \E f \in ParseFrames : FrameOp(f)
    \/ \E key \in {"k1", "nx", "ch"},
          words \in WordSeqs(ZAddWords \cup {"nx", "ch"}, MaxWords),
          pairs \in {<<"1", "a">>, <<"1", "a", "2", "b">>} :
             ParseOp(key, words, pairs)

SpecParse == Init /\ [][ParseNext]_vars

(***************************************************************************)
(* SpecSkip: the ordered index on its own.  insert and delete are called   *)
(* with any score and member, and insert draws the level of a new node     *)
(* from 1..MaxSkipLevel, the values randomLevel() returns most often.  The *)
(* index is kept in the value table under IndexKey.                        *)
(***************************************************************************)
MaxSkipLevel == 2

IndexKey == "index"
SkipScores == {1, 2}
SkipMembers == {"a", "b"}
BoolVal(b) == [kind |-> "bool", bool |-> b]

\* the index, newSkiplist() before the first call
Index == IF IndexKey \in DOMAIN data THEN data[IndexKey].sl ELSE newSkiplist

SkipCall(op, score, member, level, r) ==
    Called(op, IndexKey, [score |-> score, member |-> member, level |-> level],
           Ret(MapPut(data, IndexKey, [kind |-> "index", sl |-> r.sl]),
               expires, BoolVal(r.ok), NoErr))

SkipInsert(score, member, level) ==
    \E r \in {insert(Index, score, member, level)} :
        SkipCall("insert", score, member, level, r)

SkipDelete(score, member) ==
    \E r \in {delete(Index, score, member)} :
        SkipCall("delete", score, member, 0, r)

SkipNext ==
    \/ \E score \in SkipScores, member \in SkipMembers,
          level \in 1..MaxSkipLevel : SkipInsert(score, member, level)
    \/ \E score \in SkipScores, member \in SkipMembers :
          SkipDelete(score, member)

SpecSkip == Init /\ [][SkipNext]_vars

(***************************************************************************)
(* The claims.                                                             *)
(***************************************************************************)

\* C1: lazy expiry coherence.  Whenever TTL(k) has just returned, it
\* returned -2 if and only if a GET(k) issued at the same clock reading
\* returns null (no value and no error).
C1_TTLGetCoherence ==
    last.op = "TTL" =>
        LET g == Get(Store, now, last.key) IN
        (last.res = IntVal(-2)) <=> (g.res = NIL /\ g.err = NoErr)

\* TTL has just answered -2 for a string whose deadline had been reached
C1_Witness ==
    /\ last.op = "TTL"
    /\ last.before.kind = "string"
    /\ last.before.deadline \in {"now", "past"}
    /\ last.res = IntVal(-2)

StoreAfter == [data |-> data', expires |-> expires']

\* how a read of an absent key answers
GetSaysAbsent(st, t, key) ==
    LET g == Get(st, t, key) IN g.res = NIL /\ g.err = NoErr
ZRangeSaysAbsent(st, t, key) ==
    LET z == ZRange(st, t, key, FullRange.start, FullRange.stop,
                    FullRange.opts)
    IN z.res = ArrayVal(<<>>) /\ z.err = NoErr
TTLSaysAbsent(st, t, key) == TTL(st, t, key).res = IntVal(-2)

\* C2: whenever KEYS "*" has just returned, it listed exactly the keys for
\* which GET or ZRANGE 0 -1 does not answer as for an absent key.
C2_KeysListsPresentKeys ==
    (last.op = "KEYS" /\ last.key = "*") =>
        last.res.set = {k \in KeyUniverse :
                           \/ ~GetSaysAbsent(Store, now, k)
                           \/ ~ZRangeSaysAbsent(Store, now, k)}

\* the sequence s as a set
SeqRange(q) == {q[i] : i \in 1..Len(q)}

\* C5: a DEL command returns the number of named keys that were live when it
\* began, of either kind, and leaves every named key absent with no deadline.
C5_DelCountsAndRemoves ==
    [][last'.op = "DEL" =>
         LET named == SeqRange(last'.args.keys)
             live == {k \in named :
                         k \in DOMAIN data /\ ~isExpired(Store, now, k)}
         IN /\ last'.res = IntVal(Cardinality(live))
            /\ \A k \in named :
                  /\ GetSaysAbsent(StoreAfter, now', k)
                  /\ ZRangeSaysAbsent(StoreAfter, now', k)
                  /\ TTLSaysAbsent(StoreAfter, now', k)
                  /\ k \notin DOMAIN expires']_vars

\* the (member, score) slots of a WITHSCORES reply
RECURSIVE SlotsOf(_)
SlotsOf(arr) ==
    IF Len(arr) < 2 THEN <<>>
    ELSE <<[member |-> arr[1].str, score |-> arr[2].val]>>
            \o SlotsOf(SubSeq(arr, 3, Len(arr)))

ListsOnceWithScore(arr, member, score) ==
    LET slots == SlotsOf(arr) IN
    /\ Cardinality({i \in 1..Len(slots) : slots[i].member = member}) = 1
    /\ \E i \in 1..Len(slots) :
          slots[i].member = member /\ slots[i].score = score

\* C6: whenever ZADD k s m without options has just succeeded, the full
\* range by rank and a BYSCORE range around s, both WITHSCORES, list m
\* exactly once, paired with s.
C6_ZAddThenZRange ==
    (last.op = "ZADD" /\ last.err = NoErr /\ last.args.opts = NilOptions
        /\ Len(last.args.members) = 1) =>
        LET s == last.args.members[1].Score
            m == last.args.members[1].Member
            byRank == ZRange(Store, now, last.key, FullRange.start,
                             FullRange.stop, FullRange.opts)
            byScore == ZRange(Store, now, last.key, FloatVal(s - 1),
                              FloatVal(s + 1),
                              [FullRange.opts EXCEPT !.RangeType = "BYSCORE"])
        IN /\ ListsOnceWithScore(byRank.res.arr, m, s)
           /\ ListsOnceWithScore(byScore.res.arr, m, s)


\* C3: the value table and the deadline table change only in a step taken
\* while the store's exclusive lock is held, so no two read-locked
\* operations ever race on the maps.
C3_WritesHoldExclusiveLock ==
    [][(data' # data \/ expires' # expires) => mu.writer # NoConn]_vars

\* C4: the DEL replies never count a key more often than it was created:
\* concurrent DEL commands for one existing key return integers that sum
\* to 1.
C4_DelCountsKeyOnce ==
    \A k \in DOMAIN credited : credited[k] <= stored[k]


\* the store as NewMemoryStore leaves it
InitialStore == [data |-> <<>>, expires |-> <<>>]

\* the errors of createCommand the handler is to answer and survive: an
\* unknown command name, a wrong number of arguments, a bad option
UnknownCommandErrors == {"unknown command"}
ArityErrors ==
    {"ECHO command requires exactly 1 argument",
     "SET command requires at least 2 arguments",
     "GET command requires exactly 1 argument",
     "DEL command requires at least 1 argument",
     "EXPIRE command requires at least 2 arguments",
     "TTL command requires exactly 1 argument",
     "KEYS command requires exactly 1 argument",
     "ZADD command requires at least one score-member pair",
     "ZRANGE command requires at least 3 arguments"}
OptionErrors ==
    {"unknown option", "invalid option", "option requires a value",
     "invalid value for option"}
RecoverableRequest(f) ==
    Parse(f, now).err \in UnknownCommandErrors \cup ArityErrors
                          \cup OptionErrors
WellFormed(f) == Parse(f, now).err = NoErr

\* the requests the handler has taken off the connection
Consumed == SubSeq(received, 1, Len(received) - Len(inq.frames))

\* the store and the responses after serving the requests one after the
\* other, each answered by its result or by its error
RECURSIVE Replay(_, _, _)
Replay(frames, st, o) ==
    IF frames = <<>> THEN [st |-> st, out |-> o]
    ELSE
      LET p == Parse(Head(frames), now) IN
      IF p.err # NoErr
      THEN Replay(Tail(frames), st, Append(o, ErrorResponse(p.err)))
      ELSE LET r == Execute(p.cmd, st, now) IN
           Replay(Tail(frames), [data |-> r.data, expires |-> r.expires],
                  Append(o, IF r.err # NoErr THEN ErrorResponse(r.err)
                            ELSE Response(r.res)))

\* C7: as long as every request taken off the connection was well-formed
\* or had a recoverable error (unknown command, wrong number of arguments,
\* bad option, store-level error) and the client is still there, the handler
\* has not returned, and whenever it is back at reading it has written one
\* response per request, an error response for each request in error.
C7_RecoverableErrorAnswered ==
    ((\A i \in 1..Len(Consumed) :
          WellFormed(Consumed[i]) \/ RecoverableRequest(Consumed[i]))
     /\ ~inq.closed)
    => /\ hnd.pc # "returned"
       /\ hnd.pc = "parse" => out = Replay(Consumed, InitialStore, <<>>).out

Quiet == \A g \in Callers : ~InCall(g)
Sequential == \A i \in 1..Len(hist) : hist[i].alone
Handling(p) == peers[p].state \in {"connected", "closing"}

\* C9: once Start, Stop, Start have returned without error, one after the
\* other, s.listener is a new, open listener and an accept loop is running
\* on the server to accept the clients that dial it.
C9_RestartAccepts ==
    LET n == Len(hist) IN
    (/\ Quiet /\ Sequential /\ n >= 3
     /\ hist[n - 2] = Returns("Start", NoErr, TRUE)
     /\ hist[n - 1] = Returns("Stop", NoErr, TRUE)
     /\ hist[n] = Returns("Start", NoErr, TRUE))
    => /\ srv.listener = Len(sockets)
       /\ sockets[srv.listener] = "open"
       /\ \E i \in 1..Len(loops) : loops[i].pc \in {"select", "accept"}

\* C10: when the last call to have returned is a Stop, after any sequence
\* of calls made one after the other, the listener opened by the most
\* recent successful Start is closed, every accept loop has returned and no
\* connection goroutine is left.
C10_StopLeavesNothingRunning ==
    (/\ Quiet /\ Sequential /\ hist # <<>>
     /\ hist[Len(hist)].call = "Stop")
    => /\ sockets # <<>> => sockets[Len(sockets)] = "closed"
       /\ \A i \in 1..Len(loops) : loops[i].pc = "done"
       /\ \A p \in Peers : ~Handling(p)

\* the process has died of a panic in an accept loop
Crashed == \E i \in 1..Len(loops) : loops[i].pc = "panicked"

\* C11: a call of Stop that has begun returns in the end, when every
\* connected client closes its connection in the end (and the process does
\* not die of a panic in the meantime).
C11_StopReturns ==
    \A g \in Callers :
        (callers[g].pc \in {"StopClose", "StopWait"})
            ~> (callers[g].pc = "idle" \/ Crashed)

\* C12: every call of Stop that has returned has returned nil, whether it
\* ran alone, beside another call, or on a server never started, and
\* close(s.quit) has been executed at most once.
C12_StopIdempotent ==
    /\ \A i \in 1..Len(hist) : hist[i].call = "Stop" => hist[i].err = NoErr
    /\ srv.closes <= 1
    /\ srv.closes = 1 <=> srv.quit = "closed"

\* two calls of Stop have returned on a started server, the later one
\* having run beside another call
C12_Witness ==
    \E i, j \in 1..Len(hist) :
        /\ i < j
        /\ hist[i].call = "Stop" /\ hist[j].call = "Stop"
        /\ ~hist[j].alone \/ ~hist[i].alone
        /\ sockets # <<>>

\* what a key holds and its deadline, in the maps st
KeyView(st, key) ==
    [value |-> IF key \in DOMAIN st.data THEN st.data[key] ELSE NIL,
     deadline |-> IF key \in DOMAIN st.expires THEN st.expires[key] ELSE -1]
Reading(cn) == cn.pc = "body" /\ cn.call \in {"ZRange", "Get", "TTL"}
Writing(cn) == cn.pc = "body" /\ cn.call \in {"ZAdd", "Set"} /\ cn.i > 0

\* C13: whenever ZRange, Get or TTL reads a key while a ZAdd or a Set on
\* that key is between its first and its last write, the key is as it was
\* before the first write or as it is after the last: never with some of
\* the pairs applied, never with the value stored and the deadline not yet
\* updated.
C13_NoTornRead ==
    [][\A c \in Conns, w \in Conns :
          (/\ Reading(conn[c]) /\ conn'[c].pc = "release"
           /\ Writing(conn[w])
           /\ conn[w].cmd.keys[1] = conn[c].cmd.keys[1])
          => LET key == conn[w].cmd.keys[1]
                 before == conn[w].ret
                 after == WholeCall(conn[w], before, now)
             IN KeyView(Store, key) \in
                    {KeyView(before, key), KeyView(after, key)}]_vars

\* a ZRange has read both pairs of a finished ZAdd while the other
\* connection has its next ZAdd on the same key waiting for the lock
C13_Witness ==
    \E c \in Conns, w \in Conns :
        /\ conn[c].pc = "release" /\ conn[c].call = "ZRange"
        /\ conn[c].val = ArrayVal(<<StringVal("a"), FloatVal(1),
                                    StringVal("b"), FloatVal(2)>>)
        /\ conn[w].pc = "acquire" /\ conn[w].call = "ZAdd"
\* a SET that names no option at all: nil options, or options with nothing set
Plain(opts) == opts.nil \/ (opts.active = {} /\ opts.ExpiryType = "")

\* C14: whenever SET k v with no options has just returned, it returned no
\* error and a GET k issued at that moment returns the string v, whatever k
\* held before the SET (nothing, a string, a sorted set, or an entry whose
\* deadline had passed).
C14_SetThenGet ==
    (last.op = "SET" /\ Plain(last.args.opts)) =>
        /\ last.err = NoErr
        /\ LET g == Get(Store, now, last.key)
           IN g.res = StringVal(last.args.value) /\ g.err = NoErr

\* a plain SET has just overwritten a string whose deadline had passed
C14_Witness ==
    /\ last.op = "SET" /\ Plain(last.args.opts)
    /\ last.before.kind = "string" /\ last.before.deadline = "past"
    /\ Get(Store, now, last.key).res = StringVal(last.args.value)

\* the deadline table's entry for a key: <<deadline>>, or <<>> if it has none
DeadlineOf(st, key) ==
    IF key \in DOMAIN st.expires THEN <<st.expires[key]>> ELSE <<>>

\* C15: every SET that is applied leaves the key's deadline as its options
\* say: with EX, PX, EXAT or PXAT the deadline is exactly the one the option
\* specifies (clock plus the relative time, or the absolute time); with
\* KEEPTTL the key's entry in the deadline table, or its absence, is what it
\* was before the SET; with neither the key has no deadline and TTL answers
\* -1.
C15_SetDeadline ==
    [][(last'.op = "SET" /\ last'.err = NoErr) =>
        LET k == last'.key
            o == last'.args.opts
            after == DeadlineOf(StoreAfter, k)
        IN IF ~o.nil /\ o.ExpiryType \in {"EX", "PX"}
           THEN /\ after = <<o.ExpiryTime>>
                /\ o.ExpiryTime = IF o.ExpiryType = "EX"
                                  THEN now + Seconds(1)
                                  ELSE now + Milliseconds(500)
           ELSE IF ~o.nil /\ o.ExpiryType \in {"EXAT", "PXAT"}
           THEN after = <<o.ExpiryTime>> /\ o.ExpiryTime = 2
           ELSE IF ~o.nil /\ o.ExpiryType = "KEEPTTL"
           THEN after = DeadlineOf(Store, k)
           ELSE /\ after = <<>>
                /\ TTL(StoreAfter, now', k).res = IntVal(-1)]_vars

\* a SET with KEEPTTL has just been applied to a string whose deadline lies
\* ahead, and the deadline is still there
C15_Witness ==
    /\ last.op = "SET" /\ last.err = NoErr
    /\ ~last.args.opts.nil /\ last.args.opts.ExpiryType = "KEEPTTL"
    /\ last.before.kind = "string" /\ last.before.deadline = "future"
    /\ last.key \in DOMAIN expires /\ expires[last.key] > now

\* a key exists when it is in the value table and its deadline has not passed
Live(st, t, key) == key \in DOMAIN st.data /\ ~isExpired(st, t, key)

\* the value and the deadline a key has in the two tables
Slots(st, key) ==
    <<IF key \in DOMAIN st.data THEN <<st.data[key]>> ELSE <<>>,
      DeadlineOf(st, key)>>

\* C16: SET with NX on a key that exists returns the error 'key already
\* exists', and SET with XX on a key that does not exist returns the error
\* 'key does not exist'; either leaves the key's value and deadline as they
\* were.  SET with NX on an absent key, and SET with XX on an existing key,
\* return no error and store the value.  A key whose deadline has passed is
\* an absent key.
C16_SetGating ==
    [][(last'.op = "SET" /\ ~last'.args.opts.nil) =>
        LET k == last'.key
            o == last'.args.opts
            live == Live(Store, now, k)
            refused(msg) == /\ last'.err = msg
                            /\ Slots(StoreAfter, k) = Slots(Store, k)
            applied == /\ last'.err = NoErr
                       /\ k \in DOMAIN data'
                       /\ data'[k] = StringVal(last'.args.value)
        IN /\ (IsSet(o, "NX") /\ live) => refused("key already exists")
           /\ (IsSet(o, "XX") /\ ~live) => refused("key does not exist")
           /\ (IsSet(o, "NX") /\ ~live) => applied
           /\ (IsSet(o, "XX") /\ live) => applied]_vars

\* C17: every SET that is applied returns, with the GET option, the value
\* the key held immediately before the SET, or null if the key was absent (a
\* key whose deadline has passed is absent); without the GET option it
\* returns null.
C17_SetGetReturnsPrior ==
    [][(last'.op = "SET" /\ last'.err = NoErr) =>
        LET k == last'.key
            o == last'.args.opts
        IN last'.res = IF ~o.nil /\ IsSet(o, "GET")
                       THEN IF Live(Store, now, k) THEN data[k] ELSE NIL
                       ELSE NIL]_vars

\* C19: EXPIRE on a key that does not exist (one that is not in the value
\* table, or whose deadline has passed) returns the error 'key does not
\* exist' and leaves the value table and the deadline table as they were.
C19_ExpireMissingKey ==
    [][(last'.op = "EXPIRE" /\ ~Live(Store, now, last'.key)) =>
        /\ last'.err = "key does not exist"
        /\ data' = data
        /\ expires' = expires]_vars

\* C20: whenever EXPIRE k ttl with ttl <= 0 and no options has just returned
\* for a key that was in the store, it returned no error, the key is in
\* neither the value table nor the deadline table, GET k returns null and
\* TTL k returns -2.
C20_ExpireNonPositiveDeletes ==
    (/\ last.op = "EXPIRE"
     /\ last.args.ttl <= 0
     /\ Plain(last.args.opts)
     /\ last.before.kind # "none") =>
        /\ last.err = NoErr
        /\ last.key \notin DOMAIN data
        /\ last.key \notin DOMAIN expires
        /\ GetSaysAbsent(Store, now, last.key)
        /\ TTLSaysAbsent(Store, now, last.key)

\* EXPIRE k 0 has just removed a string whose deadline lay ahead
C20_Witness ==
    /\ last.op = "EXPIRE" /\ last.args.ttl = 0 /\ Plain(last.args.opts)
    /\ last.before.kind = "string" /\ last.before.deadline = "future"
    /\ last.err = NoErr
    /\ last.key \notin DOMAIN data

\* the i-th request taken off the connection is a SET without the GET option
SetWithoutGet(i) ==
    LET p == Parse(Consumed[i], now) IN
    /\ p.err = NoErr
    /\ p.cmd.name = "SET"
    /\ p.cmd.Options.nil \/ ~IsSet(p.cmd.Options, "GET")

\* C18: every SET without the GET option that stored its value (its answer
\* is a response, not an error) is answered on the wire with the simple
\* string +OK.
C18_SetAnsweredOK ==
    \A i \in 1..Len(out) :
        (SetWithoutGet(i) /\ out[i].type = "response")
            => WriteInterface(out[i].value) = SimpleLine("OK")

\* the deadline of a key that has not passed: <<deadline>>, or <<>>
LiveDeadline(st, t, key) ==
    IF key \in DOMAIN st.expires /\ st.expires[key] >= t
    THEN <<st.expires[key]>> ELSE <<>>

\* C21: for EXPIRE k ttl with options on a key in the value table, the
\* request is let through exactly if: with NX the key has no live deadline;
\* with XX it has one; with GT the new deadline now + ttl is later than the
\* live deadline, if there is one; with LT it is earlier than the live
\* deadline, if there is one.  A request let through returns no error and
\* writes the deadline now + ttl (or deletes the key when ttl <= 0); a
\* request refused returns an error and leaves the value table and the
\* deadline table as they were, also when ttl <= 0.
C21_ExpireGating ==
    [][(/\ last'.op = "EXPIRE"
        /\ ~last'.args.opts.nil
        /\ last'.key \in DOMAIN data) =>
        LET k == last'.key
            o == last'.args.opts
            ttl == last'.args.ttl
            old == LiveDeadline(Store, now, k)
            allowed ==
                /\ IsSet(o, "NX") => old = <<>>
                /\ IsSet(o, "XX") => old # <<>>
                /\ (IsSet(o, "GT") /\ old # <<>>) => now + ttl > old[1]
                /\ (IsSet(o, "LT") /\ old # <<>>) => now + ttl < old[1]
        IN IF allowed
           THEN /\ last'.err = NoErr
                /\ IF ttl > 0
                   THEN /\ data' = data
                        /\ DeadlineOf(StoreAfter, k) = <<now + ttl>>
                   ELSE Slots(StoreAfter, k) = <<<<>>, <<>>>>
           ELSE /\ last'.err # NoErr
                /\ data' = data
                /\ expires' = expires]_vars

\* EXPIRE k ttl GT with ttl <= 0 has just been refused on a string whose
\* deadline lies ahead, and the string is still there
C21_Witness ==
    /\ last.op = "EXPIRE" /\ last.err # NoErr
    /\ ~last.args.opts.nil /\ IsSet(last.args.opts, "GT")
    /\ last.args.ttl <= 0
    /\ last.before.kind = "string" /\ last.before.deadline = "future"
    /\ last.key \in DOMAIN data /\ last.key \in DOMAIN expires

\* C22: GET on a key that holds a sorted set, and ZADD or ZRANGE on a key
\* that holds a string, return a WRONGTYPE error and leave the value table
\* and the deadline table as they were (a key holds a value while it is in
\* the value table and its deadline has not passed).
C22_WrongTypeRefused ==
    [][LET k == last'.key
           holds(kind) == Live(Store, now, k) /\ data[k].kind = kind
       IN ((last'.op = "GET" /\ holds("zset"))
           \/ (last'.op \in {"ZADD", "ZRANGE"} /\ holds("string")))
          => /\ last'.err = "WRONGTYPE"
             /\ last'.res = NIL
             /\ data' = data
             /\ expires' = expires]_vars

\* ZADD has just been refused on a string whose deadline lies ahead
C22_Witness ==
    /\ last.op = "ZADD" /\ last.err = "WRONGTYPE"
    /\ last.before.kind = "string" /\ last.before.deadline = "future"
    /\ last.key \in DOMAIN data /\ data[last.key].kind = "string"
    /\ last.key \in DOMAIN expires

\* the member -> score map of the sorted set at a key, empty if there is none
DictAt(st, key) ==
    IF key \in DOMAIN st.data /\ st.data[key].kind = "zset"
    THEN st.data[key].dict ELSE <<>>

\* the pairs taken in input order against the member -> score map: a pair is
\* skipped or sets the member's score; created and changed count the members
\* newly created and those newly created or given another score
RECURSIVE PairsInOrder(_, _, _, _, _)
PairsInOrder(dict, pairs, o, created, changed) ==
    IF pairs = <<>>
    THEN [dict |-> dict, created |-> created, changed |-> changed]
    ELSE
      LET m == Head(pairs).Member
          new == Head(pairs).Score
          exists == m \in DOMAIN dict
          has(name) == ~o.nil /\ name \in o.active
          skipped == \/ has("NX") /\ exists
                     \/ has("XX") /\ ~exists
                     \/ has("GT") /\ exists /\ new <= dict[m]
                     \/ has("LT") /\ exists /\ new >= dict[m]
      IN IF skipped
         THEN PairsInOrder(dict, Tail(pairs), o, created, changed)
         ELSE PairsInOrder(MapPut(dict, m, new), Tail(pairs), o,
                           created + (IF exists THEN 0 ELSE 1),
                           changed + (IF exists /\ dict[m] = new
                                      THEN 0 ELSE 1))

\* C23: every ZADD without INCR on a key that holds a sorted set or nothing
\* returns no error, leaves the members' scores as taking the pairs in input
\* order leaves them (a pair is skipped with NX if the member exists, with
\* XX if it is absent, with GT if it exists and new score <= old score, with
\* LT if it exists and new score >= old score; otherwise the member's score
\* becomes the new score), and returns the number of members newly created,
\* or with CH the number of members newly created or given another score.
C23_ZAddGating ==
    [][(/\ last'.op = "ZADD"
        /\ last'.args.opts.nil \/ "INCR" \notin last'.args.opts.active
        /\ last'.key \in DOMAIN data => data[last'.key].kind = "zset") =>
        LET k == last'.key
            o == last'.args.opts
            ref == PairsInOrder(DictAt(Store, k), last'.args.members, o, 0, 0)
        IN /\ last'.err = NoErr
           /\ DictAt(StoreAfter, k) = ref.dict
           /\ last'.res = IF ~o.nil /\ "CH" \in o.active
                          THEN IntVal(ref.changed)
                          ELSE IntVal(ref.created)]_vars

\* ZADD k CH GT has just raised the score of a member and reported 1
C23_Witness ==
    /\ last.op = "ZADD" /\ last.err = NoErr
    /\ ~last.args.opts.nil /\ last.args.opts.active = {"CH", "GT"}
    /\ last.res = IntVal(1)
    /\ last.args.members = <<ScoreMember(2, "a")>>
    /\ Len(data[last.key].members) = 2
    /\ DictAt(Store, last.key) = MapPut(EmptyMap, "a", 2)

\* C24: every ZADD with INCR on a key that holds a sorted set or nothing:
\* with one pair (delta, member) it returns no error; if NX is set and the
\* member exists, or XX is set and the member is absent, it returns null
\* and changes nothing; otherwise the member's score becomes old score +
\* delta (delta if the member was absent) and that score is returned.  With
\* any other number of pairs it returns an error.
C24_ZAddIncr ==
    [][(/\ last'.op = "ZADD"
        /\ ~last'.args.opts.nil /\ "INCR" \in last'.args.opts.active
        /\ last'.key \in DOMAIN data => data[last'.key].kind = "zset") =>
        LET k == last'.key
            o == last'.args.opts
            pairs == last'.args.members
            dict == DictAt(Store, k)
            m == pairs[1].Member
            exists == m \in DOMAIN dict
            new == (IF exists THEN dict[m] ELSE 0) + pairs[1].Score
            suppressed == \/ "NX" \in o.active /\ exists
                          \/ "XX" \in o.active /\ ~exists
        IN IF Len(pairs) # 1 THEN last'.err # NoErr
           ELSE /\ last'.err = NoErr
                /\ IF suppressed
                   THEN /\ last'.res = NIL
                        /\ data' = data
                        /\ expires' = expires
                   ELSE /\ last'.res = FloatVal(new)
                        /\ DictAt(StoreAfter, k) = MapPut(dict, m, new)]_vars

\* the words name NX with XX, GT with LT, or INCR with one of NX, XX, GT, LT
Conflicting(words) ==
    LET named == {ToUpper(words[i]) : i \in 1..Len(words)} IN
    \/ {"NX", "XX"} \subseteq named
    \/ {"GT", "LT"} \subseteq named
    \/ "INCR" \in named /\ named \cap {"NX", "XX", "GT", "LT"} # {}

\* C25: whenever the option words of a ZADD name NX together with XX, GT
\* together with LT, or INCR together with one of NX, XX, GT, LT, setting
\* them on the ZADD options returns an error, in whatever order they come.
C25_ZAddIncompatible ==
    (last.op = "OPTIONS" /\ Conflicting(last.args.words))
        => last.err # NoErr

\* the pairs the arguments score member [score member ...] spell
RECURSIVE PairsOf(_)
PairsOf(pairs) ==
    IF pairs = <<>> THEN <<>>
    ELSE <<ScoreMember(ParseFloat(pairs[1]).n, pairs[2])>>
            \o PairsOf(SubSeq(pairs, 3, Len(pairs)))

\* C26: whenever the request ZADD key [option words] score member [score
\* member ...] with option words that go together has been parsed, the
\* parser returned a ZADD command whose key is the first argument after the
\* command name (also when it spells an option word), whose options are the
\* option words that follow the key, and whose pairs are the arguments from
\* the first one after the option words on.
C26_ZAddParsed ==
    (last.op = "PARSE" /\ ~Conflicting(last.args.words)) =>
        /\ last.err = NoErr
        /\ last.res.name = "ZADD"
        /\ last.res.Key = last.key
        /\ last.res.Options.active =
              {ToUpper(last.args.words[i]) : i \in 1..Len(last.args.words)}
        /\ last.res.Members = PairsOf(last.args.pairs)

\* the members of a member -> score map in ascending (score, member) order
Ascending(dict) ==
    LET n == Cardinality(DOMAIN dict)
        before(x, y) == \/ dict[x] < dict[y]
                        \/ dict[x] = dict[y] /\ StrLess(x, y)
    IN IF n = 0 THEN <<>>
       ELSE CHOOSE q \in [1..n -> DOMAIN dict] :
               \A i, j \in 1..n : i < j => before(q[i], q[j])

\* the reply for a sequence of members: each member, followed by its score
\* when withScores is set
RECURSIVE Reply(_, _, _)
Reply(q, dict, withScores) ==
    IF q = <<>> THEN <<>>
    ELSE (IF withScores
          THEN <<StringVal(Head(q)), FloatVal(dict[Head(q)])>>
          ELSE <<StringVal(Head(q))>>) \o Reply(Tail(q), dict, withScores)

\* the sorted set at a key has distinct members, each added once
AddedOnce(st, key) ==
    /\ key \in DOMAIN st.data /\ st.data[key].kind = "zset"
    /\ Len(st.data[key].members) = Cardinality(DOMAIN st.data[key].dict)

\* what ZRANGE start stop is to return for n members in ascending order
RankRange(q, dict, start, stop, withScores) ==
    LET n == Len(q)
        from0 == IF start < 0 THEN n + start ELSE start
        to0 == IF stop < 0 THEN n + stop ELSE stop
        from == IF from0 < 0 THEN 0 ELSE from0
        to == IF to0 > n - 1 THEN n - 1 ELSE to0
    IN IF from > to \/ from >= n THEN <<>>
       ELSE Reply(SubSeq(q, from + 1, to + 1), dict, withScores)

RankIndexes == -5..5

\* C27: ZRANGE k1 start stop by rank, with and without WITHSCORES, returns
\* no error and: the empty sequence when the key is absent (not in the value
\* table, or its deadline has passed); for a sorted set of n distinct
\* members each added once, the members at ranks start..stop of the
\* ascending (score, member) order after mapping a negative index i to
\* n + i and clamping start up to 0 and stop down to n - 1 (none when
\* start > stop or start >= n), each followed by its score with WITHSCORES.
C27_ZRangeByRank ==
    \A start, stop \in RankIndexes, withScores \in BOOLEAN :
        LET in == ByRank(start, stop, withScores)
            z == ZRange(Store, now, "k1", in.start, in.stop, in.opts)
            dict == DictAt(Store, "k1")
        IN /\ ~Live(Store, now, "k1") =>
                 z.err = NoErr /\ z.res = ArrayVal(<<>>)
           /\ (Live(Store, now, "k1") /\ AddedOnce(Store, "k1")) =>
                 /\ z.err = NoErr
                 /\ z.res = ArrayVal(RankRange(Ascending(dict), dict,
                                               start, stop, withScores))

\* the members of q whose score lies in [min, max], in the order of q
RECURSIVE ScoreFilter(_, _, _, _)
ScoreFilter(q, dict, min, max) ==
    IF q = <<>> THEN <<>>
    ELSE (IF min <= dict[Head(q)] /\ dict[Head(q)] <= max
          THEN <<Head(q)>> ELSE <<>>) \o ScoreFilter(Tail(q), dict, min, max)

ScoreBounds == 0..3

C29_ZRangeByScoreRev ==
    AddedOnce(Store, "k1") =>
        \A min, max \in ScoreBounds, withScores \in BOOLEAN :
            LET in == ByScore(min, max, TRUE, withScores)
                z == ZRange(Store, now, "k1", in.start, in.stop, in.opts)
                dict == DictAt(Store, "k1")
            IN /\ z.err = NoErr
               /\ z.res = ArrayVal(Reply(Reverse(
                                ScoreFilter(Ascending(dict), dict, min, max)),
                              dict, withScores))

LexBounds == {"a", "b", "c"}

\* C30: for the sorted set at k1, however its members were added, re-added
\* or re-scored, ZRANGE k1 min max BYLEX returns no error and a sequence of
\* strings in which each member m with min <= m <= max occurs exactly once
\* and nothing else occurs; with REV it returns that sequence reversed.
C30_ZRangeByLex ==
    ("k1" \in DOMAIN data /\ data["k1"].kind = "zset") =>
        \A min, max \in LexBounds :
            LET fwd == ByLex(min, max, FALSE)
                rev == ByLex(min, max, TRUE)
                z == ZRange(Store, now, "k1", fwd.start, fwd.stop, fwd.opts)
                r == ZRange(Store, now, "k1", rev.start, rev.stop, rev.opts)
                wanted == {m \in DOMAIN DictAt(Store, "k1") :
                              StrLeq(min, m) /\ StrLeq(m, max)}
                got == z.res.arr
            IN /\ z.err = NoErr /\ r.err = NoErr
               /\ {got[i] : i \in 1..Len(got)} = {StringVal(m) : m \in wanted}
               /\ Len(got) = Cardinality(wanted)
               /\ r.res.arr = Reverse(got)

\* the same range request with LIMIT offset count
Limited(in, offset, count) ==
    [in EXCEPT !.opts.Limit = [Offset |-> offset, Count |-> count]]

\* slots offset .. offset+count-1 of q, a slot being width elements
SlotsFrom(q, width, offset, count) ==
    SubSeq(q, offset * width + 1,
           IF (offset + count) * width > Len(q)
           THEN Len(q) ELSE (offset + count) * width)

LimitBounds == 0..3

\* C31: for the sorted set at k1 and every range request, ZRANGE with LIMIT
\* offset count returns slots offset .. offset+count-1 of what the same
\* request returns without LIMIT (fewer if that is shorter, none if offset is
\* at or past its end or if count is 0), a slot being a member, or with
\* WITHSCORES a member and its score, so that output has even length.
C31_ZRangeLimit ==
    ("k1" \in DOMAIN data /\ data["k1"].kind = "zset") =>
        \A in \in ZSetRanges : \A offset, count \in LimitBounds :
            LET full == ZRange(Store, now, "k1", in.start, in.stop, in.opts)
                lim == Limited(in, offset, count)
                cut == ZRange(Store, now, "k1", lim.start, lim.stop, lim.opts)
                width == IF in.opts.WithScores THEN 2 ELSE 1
            IN /\ cut.err = full.err
               /\ full.err = NoErr =>
                    /\ cut.res.arr
                         = SlotsFrom(full.res.arr, width, offset, count)
                    /\ Len(cut.res.arr) % width = 0

\* the elements of frame f that are null bulk strings
NullElements(f) == {i \in 1..Len(f.elems) : f.elems[i].len < 0}

\* C32: a request frame in which some array element is a null bulk string
\* is rejected: Parse returns an error and no command for it.
C32_NullBulkRejected ==
    (last.op = "FRAME" /\ NullElements(last.args.frame) # {}) =>
        last.err # NoErr /\ last.res = NIL

\* f is a non-empty array of bulk strings, none of them null
WellFramed(f) ==
    /\ f.first = "*" /\ f.count = Len(f.elems) /\ f.count >= 1
    /\ \A i \in 1..Len(f.elems) : f.elems[i].mark = "$" /\ f.elems[i].len >= 0

\* C39: for every well-framed request, command construction ends with a
\* command or with an error; it never indexes the argument array out of
\* range, also for ZADD requests whose key spells an option name.
C39_CreateCommandNoPanic ==
    /\ (last.op = "FRAME" /\ WellFramed(last.args.frame)) =>
          last.err # "panic: index out of range"
    /\ last.op = "PARSE" => last.err # "panic: index out of range"

\* C33: in every store state between operations, every key of the deadline
\* table is a key of the value table.
C33_DeadlineHasValue == DOMAIN expires \subseteq DOMAIN data

\* a GET has just reclaimed a key whose deadline had passed: the value and
\* the deadline are both gone, while another key still carries a deadline
C33_Witness ==
    /\ last.op = "GET" /\ last.before.kind # "none"
    /\ last.before.deadline = "past"
    /\ last.key \notin DOMAIN data /\ last.key \notin DOMAIN expires
    /\ DOMAIN expires # {}

\* the nodes of an index in the order of its level-0 forward pointers
IndexNodes(sl) ==
    LET ids == Walk(sl, sl.nodes[sl.head].forward[0],
                    Cardinality(DOMAIN sl.nodes))
    IN [i \in 1..Len(ids) |-> sl.nodes[ids[i]]]

\* C34: after any sequence of ZADDs on k1 the member -> score map and the
\* ordered index hold the same pairs: every member of the map is in the
\* index exactly once, with the map's score, and the index is as long as
\* the map is large.
C34_MapAndIndexAgree ==
    ("k1" \in DOMAIN data /\ data["k1"].kind = "zset") =>
        LET set == data["k1"]
            nodes == IndexNodes(set.sl)
        IN /\ Len(nodes) = Cardinality(DOMAIN set.dict)
           /\ set.sl.length = Cardinality(DOMAIN set.dict)
           /\ \A m \in DOMAIN set.dict :
                 /\ Cardinality({i \in 1..Len(nodes) : nodes[i].member = m}) = 1
                 /\ \A i \in 1..Len(nodes) :
                       nodes[i].member = m => nodes[i].score = set.dict[m]

\* C35: after any sequence of insert and delete calls, the level-0 forward
\* pointers visit the nodes in strictly ascending (score, member) order,
\* members compared byte-wise, and length is the number of nodes visited.
C35_IndexOrdered ==
    LET nodes == IndexNodes(Index) IN
    /\ \A i \in 1..(Len(nodes) - 1) :
          KeyBefore(nodes[i], nodes[i + 1].score, nodes[i + 1].member)
    /\ Index.length = Len(nodes)

\* a delete call has just unlinked a node and left at least two nodes, one
\* of them of level 2
C35_Witness ==
    /\ last.op = "delete" /\ last.res = BoolVal(TRUE)
    /\ Len(IndexNodes(Index)) >= 2
    /\ \E i \in 1..Len(IndexNodes(Index)) : IndexNodes(Index)[i].level = 2

\* the (member, score) pairs an index holds
IndexPairs(sl) ==
    {<<IndexNodes(sl)[i].member, IndexNodes(sl)[i].score>> :
        i \in 1..Len(IndexNodes(sl))}

\* C40: insert(score, member) returns true only when the member was not in
\* the index; on a member present with that score it changes nothing and
\* returns false; on a member present with another score it removes the
\* old node, puts the member at its new score, returns false and leaves
\* the length as it was.
C40_InsertRescores ==
    [][last'.op = "insert" =>
         LET score == last'.args.score
             member == last'.args.member
             old == {p \in IndexPairs(Index) : p[1] = member}
         IN /\ last'.res = BoolVal(TRUE) => old = {}
            /\ old = {<<member, score>>} =>
                  /\ Index' = Index
                  /\ last'.res = BoolVal(FALSE)
            /\ (Cardinality(old) = 1 /\ old # {<<member, score>>}) =>
                  /\ IndexPairs(Index')
                        = (IndexPairs(Index) \ old) \cup {<<member, score>>}
                  /\ last'.res = BoolVal(FALSE)
                  /\ Index'.length = Index.length]_vars

\* a key still in the value table whose deadline has passed
Unreclaimed(st, t, key) == key \in DOMAIN st.data /\ isExpired(st, t, key)

\* C36: an EXPIRE, with or without options, on a key whose deadline has
\* passed and whose entry has not been reclaimed returns the error 'key
\* does not exist', and a GET right after it does not return a value.
C36_ExpiredStaysAbsent ==
    [][(last'.op = "EXPIRE" /\ Unreclaimed(Store, now, last'.key)) =>
        /\ last'.err = "key does not exist"
        /\ Get(StoreAfter, now, last'.key).res = NIL]_vars

\* C37: SET on a key whose deadline has passed and whose entry has not been
\* reclaimed acts as on an absent key: with NX it stores the value, with XX
\* it is refused with 'key does not exist', with GET it returns null, and
\* with KEEPTTL the key ends up without the passed deadline.
C37_SetOnExpiredKey ==
    [][(/\ last'.op = "SET"
        /\ ~last'.args.opts.nil
        /\ Unreclaimed(Store, now, last'.key)) =>
        LET k == last'.key
            o == last'.args.opts
        IN /\ IsSet(o, "NX") =>
                 /\ last'.err = NoErr
                 /\ k \in DOMAIN data'
                 /\ data'[k] = StringVal(last'.args.value)
           /\ IsSet(o, "XX") =>
                 /\ last'.err = "key does not exist"
                 /\ Slots(StoreAfter, k) = Slots(Store, k)
           /\ IsSet(o, "GET") => last'.res = NIL
           /\ IsKEEPTTL(o) => k \notin DOMAIN expires']_vars

\* C38: a ZADD on a key that is not in the store which returns an error, or
\* after which no member is stored under the key, leaves the value table
\* and the deadline table as they were: KEYS * does not list the key, TTL
\* returns -2 and GET returns null without error.
C38_ZAddNothingWritten ==
    [][(/\ last'.op = "ZADD"
        /\ last'.key \notin DOMAIN data
        /\ \/ last'.err # NoErr
           \/ last'.key \notin DOMAIN data'
           \/ DOMAIN DictAt(StoreAfter, last'.key) = {}) =>
        LET k == last'.key IN
        /\ data' = data
        /\ expires' = expires
        /\ k \notin Keys(StoreAfter, now, "*").res.set
        /\ TTL(StoreAfter, now, k).res = IntVal(-2)
        /\ Get(StoreAfter, now, k).res = NIL
        /\ Get(StoreAfter, now, k).err = NoErr]_vars

====
